---- MODULE Spec2Model ----
(***************************************************************************)
(* Billing and account-ledger engine of the dental-laboratory back office. *)
(* The store (tables invoices, payments, account_entries, work_orders,     *)
(* user_profiles) is the shared state; every handler is a process that     *)
(* performs one store call per step, in the order of its awaits.           *)
(* Amounts are whole currency units, on which JavaScript number            *)
(* arithmetic is exact; in SpecDecimal they have two decimals, the         *)
(* columns hold cents and the handlers compute on doubles.                 *)
(***************************************************************************)
EXTENDS Integers, Sequences, FiniteSets, TLC

(* ------------------------------ bounds -------------------------------- *)
\* handler invocations that pass validation
MaxOps == 3

(* ------------------------- program constants -------------------------- *)
\* the matching window of the PATCH and DELETE handlers, in milliseconds
Window == 5000
\* encodings of JavaScript's NaN/undefined and of SQL NULL in integer fields
NaN == -999
NoDate == -1
NullPrice == -1
NoId == 0
\* a well-formed id that names no row: ids are uuids the store generates at
\* insert, so no row inserted later takes the id a request already carries
UnknownId == -1
NullType == "NULL"

WORK_TYPE_PRICES ==
  [t \in {"PROTESIS", "CORONA_ZIRCONIA", "CORONA_A_PERNO", "MODELO_IMPRESO",
          "TERMINACION_1_A_5", "TERMINACION_6_A_10", "REPARACION",
          "PROVISORIO", "GANCHO_LABRADO"} |->
     CASE t = "PROTESIS" -> 2750
       [] t = "CORONA_ZIRCONIA" -> 2990
       [] t = "CORONA_A_PERNO" -> 3200
       [] t = "MODELO_IMPRESO" -> 400
       [] t = "TERMINACION_1_A_5" -> 3350
       [] t = "TERMINACION_6_A_10" -> 200
       [] t = "REPARACION" -> 1150
       [] t = "PROVISORIO" -> 1780
       [] t = "GANCHO_LABRADO" -> 1500]

\* work-order status transitions of the work-order service
statusTransitions ==
  [s \in {"CREATED", "IN_PROGRESS", "DONE", "DELIVERED"} |->
     CASE s = "CREATED" -> {"IN_PROGRESS"}
       [] s = "IN_PROGRESS" -> {"DONE"}
       [] s = "DONE" -> {"DELIVERED"}
       [] s = "DELIVERED" -> {}]

(* ------------------------------ inputs -------------------------------- *)
Procs == {1, 2}
\* rows of user_profiles
Clients == {"c1", "c2"}
\* client ids a caller may pass: the existing ones and one that does not exist
ClientIds == Clients \cup {"cX"}
\* work orders supplied by the work-order subsystem
InitOrders ==
  [o \in {"o1", "o2", "o3", "o4", "o5", "o6"} |->
     CASE o = "o1" -> [dentistId |-> "c1", status |-> "DONE",
                       workType |-> NullType, price |-> 100]
       [] o = "o2" -> [dentistId |-> "c1", status |-> "DELIVERED",
                       workType |-> NullType, price |-> 50]
       [] o = "o3" -> [dentistId |-> "c2", status |-> "DELIVERED",
                       workType |-> "PROTESIS", price |-> NullPrice]
       [] o = "o4" -> [dentistId |-> "c2", status |-> "IN_PROGRESS",
                       workType |-> NullType, price |-> 70]
       [] o = "o5" -> [dentistId |-> "c2", status |-> "DONE",
                       workType |-> "REPARACION", price |-> 80]
       [] o = "o6" -> [dentistId |-> "c2", status |-> "DONE",
                       workType |-> NullType, price |-> 0]]
\* order ids a caller may pass: the existing ones and one that does not exist
OrderIds == DOMAIN InitOrders \cup {"o9"}
\* amounts a caller may pass to recordPayment and to PATCH
PayAmounts == {NaN, 0 - 50, 0, 50, 120}
EditAmounts == {NaN, 0 - 50, 0, 50, 120}
\* the instants (ms) the clock shows: two within the matching window of each
\* other, the third outside the window of the first
Times == {0, 3000, 6000}
\* the optional date of recordPayment: absent, or any instant
Dates == {NoDate} \cup Times
\* the inputs of recordPayment: every client id, amount and date; a call that
\* validation rejects is tried without a date only
PaymentInputs ==
  {in \in ClientIds \X PayAmounts \X Dates :
     (in[1] \notin Clients \/ in[2] \in {NaN, 0 - 50, 0}) => in[3] = NoDate}

VARIABLES
  clock,        \* the wall clock, in ms
  orders,       \* table work_orders: id -> row
  invoices,     \* table invoices: set of rows
  payments,     \* table payments: set of rows
  entries,      \* table account_entries: set of rows
  nextInvoice,  \* invoice ids handed out so far
  nextPayment,  \* payment ids handed out so far
  nextEntry,    \* account_entries rows inserted so far; a row's id is its number
  uuidOrder,    \* the ids of the account_entries rows, in ascending uuid order
  nOps,         \* handler invocations that passed validation
  pc,           \* per process: the await it is at
  loc,          \* per process: the handler's local variables
  pre,          \* per process: the store as it was when the handler began
  res,          \* per process: the handler's outcome
  lastPayment,  \* the recordPayment call that returned last, no other handler
                \* having succeeded since: its rows and the balance before it
  decimal       \* whether the amounts of this run have decimals

vars == <<clock, orders, invoices, payments, entries, nextInvoice, nextPayment,
          nextEntry, uuidOrder, nOps, pc, loc, pre, res, lastPayment, decimal>>
store == <<orders, invoices, payments, entries>>
counters == <<nextInvoice, nextPayment, nextEntry, uuidOrder>>

(* ------------------------------ helpers ------------------------------- *)
Now == clock

\* toNumber of the route handlers: a non-finite number becomes 0
toNumber(x) == IF x = NaN THEN 0 ELSE x

\* JavaScript's !x on a number
Falsy(x) == x = NaN \/ x = 0

RECURSIVE SumAmount(_)
SumAmount(S) ==
  IF S = {} THEN 0
  ELSE LET x == CHOOSE y \in S : TRUE IN x.amount + SumAmount(S \ {x})

RECURSIVE Perms(_)
Perms(S) ==
  IF S = {} THEN {<<>>}
  ELSE UNION {{<<x>> \o q : q \in Perms(S \ {x})} : x \in S}

\* the answers the store may give to "order by createdAt ascending":
\* rows with equal createdAt come in any order
OrderByCreatedAt(S) ==
  {q \in Perms(S) : \A i \in 1..(Len(q) - 1) : q[i].createdAt <= q[i + 1].createdAt}

\* the place of an account_entries id in the ascending order of the uuids
UuidRank(order, id) == CHOOSE k \in 1..Len(order) : order[k] = id

\* "order by createdAt ascending, id ascending": one answer
OrderByCreatedAtId(S, order) ==
  CHOOSE q \in Perms(S) :
    \A i \in 1..(Len(q) - 1) :
      \/ q[i].createdAt < q[i + 1].createdAt
      \/ /\ q[i].createdAt = q[i + 1].createdAt
         /\ UuidRank(order, q[i].id) < UuidRank(order, q[i + 1].id)

InsertAt(q, k, x) == SubSeq(q, 1, k) \o <<x>> \o SubSeq(q, k + 1, Len(q))
Without(q, ids) == SelectSeq(q, LAMBDA x : x \notin ids)

\* rows a "order by createdAt ascending limit 1" may return
Earliest(S) == {x \in S : \A y \in S : x.createdAt <= y.createdAt}
\* rows a "order by createdAt descending limit 1" may return
Latest(S) == {x \in S : \A y \in S : x.createdAt >= y.createdAt}

\* what getLatestBalance may answer for the rows S of one client: 0 without
\* rows, else balanceAfter of the row the store returns first by createdAt
\* descending; the select has no second sort key, so among rows that share the
\* greatest createdAt the store may return any
LatestBalances(S) ==
  IF S = {} THEN {0} ELSE {e.balanceAfter : e \in Latest(S)}

\* ids a caller may pass: those of the existing rows and one that does not exist
KnownId(rows, id) == IF \E r \in rows : r.id = id THEN id ELSE UnknownId
InvoiceIds == {i.id : i \in invoices} \cup {UnknownId}
PaymentIds == {q.id : q \in payments} \cup {UnknownId}

InvoiceById(id) == {i \in invoices : i.id = id}
PaymentsOf(id) == {q \in payments : q.invoiceId = id}
\* variant: the ledger is read without the client filter
EntriesOf_any(c) == entries

EntriesOf(c) == {e \in entries : e.clientId = c}

NoLoc ==
  [op |-> "none", orderId |-> "o9", clientId |-> "cX", amount |-> 0,
   date |-> NoDate, invoiceId |-> NoId, paymentId |-> NoId,
   order |-> <<>>, finalAmount |-> 0, invoice |-> <<>>, list |-> <<>>,
   paid |-> <<>>, idx |-> 0, remaining |-> 0, first |-> NoId,
   created |-> <<>>, entryInvoice |-> NoId, entryDebit |-> 0,
   entryCredit |-> 0, entryAt |-> 0, prev |-> 0, entryId |-> NoId,
   snap |-> <<>>, running |-> 0, payment |-> <<>>, nextStatus |-> "none",
   applied |-> 0, failed |-> FALSE, failedAt |-> "none", prevId |-> NoId,
   readAt |-> 0, paymentAt |-> NoDate, target |-> "none", after |-> "none",
   patch |-> <<>>,
   from |-> NoDate, to |-> NoDate, ledger |-> <<>>, invs |-> {}, ords |-> <<>>,
   rows |-> <<>>, totals |-> <<>>]
NoPre == <<>>
NoPayment == [client |-> "cX", payments |-> {}, entryId |-> NoId, balanceBefore |-> {0}]
Snapshot == [orders |-> orders, invoices |-> invoices, payments |-> payments,
             entries |-> entries, uuidOrder |-> uuidOrder]

Init ==
  /\ clock = 0
  /\ decimal = FALSE
  /\ orders = InitOrders
  /\ invoices = {}
  /\ payments = {}
  /\ entries = {}
  /\ nextInvoice = 0
  /\ nextPayment = 0
  /\ nextEntry = 0
  /\ uuidOrder = <<>>
  /\ nOps = 0
  /\ pc = [p \in Procs |-> "idle"]
  /\ loc = [p \in Procs |-> NoLoc]
  /\ pre = [p \in Procs |-> NoPre]
  /\ res = [p \in Procs |-> "none"]
  /\ lastPayment = NoPayment

\* a handler moves to its next await, with its locals changed to l
Goto(p, label, l) ==
  /\ pc' = [pc EXCEPT ![p] = label]
  /\ loc' = [loc EXCEPT ![p] = l]
  /\ UNCHANGED <<pre, res, nOps, lastPayment, decimal>>

\* the same, for the step at which a handler has passed its last check
Pass(p, label, l) ==
  /\ pc' = [pc EXCEPT ![p] = label]
  /\ loc' = [loc EXCEPT ![p] = l]
  /\ nOps' = nOps + 1
  /\ UNCHANGED <<pre, res, lastPayment, decimal>>

\* a handler returns (outcome "ok") or throws / answers 4xx-5xx ("error")
Finish(p, outcome, l) ==
  /\ pc' = [pc EXCEPT ![p] = "done"]
  /\ loc' = [loc EXCEPT ![p] = l]
  /\ res' = [res EXCEPT ![p] = outcome]
  /\ UNCHANGED <<pre, nOps, lastPayment, decimal>>

\* a caller invokes a handler
Begin(p, label, l) ==
  /\ pc[p] = "idle"
  /\ nOps < MaxOps
  /\ pc' = [pc EXCEPT ![p] = label]
  /\ loc' = [loc EXCEPT ![p] = l]
  /\ pre' = [pre EXCEPT ![p] = Snapshot]
  /\ res' = [res EXCEPT ![p] = "none"]
  /\ UNCHANGED <<clock, store, counters, nOps, lastPayment, decimal>>

\* the caller has received the outcome
Return(p) ==
  /\ pc[p] = "done"
  /\ pc' = [pc EXCEPT ![p] = "idle"]
  /\ loc' = [loc EXCEPT ![p] = NoLoc]
  /\ pre' = [pre EXCEPT ![p] = NoPre]
  /\ res' = [res EXCEPT ![p] = "none"]
  /\ lastPayment' =
       IF res[p] # "ok" THEN lastPayment
       ELSE IF loc[p].op # "recordPayment" THEN NoPayment
       ELSE [client |-> loc[p].clientId,
             payments |-> {loc[p].created[k].id : k \in 1..Len(loc[p].created)},
             entryId |-> loc[p].entryId,
             balanceBefore |->
               LatestBalances({e \in pre[p].entries : e.clientId = loc[p].clientId})]
  /\ UNCHANGED <<clock, store, counters, nOps, decimal>>

Tick ==
  /\ \E t \in Times : t > clock
  /\ clock' = CHOOSE t \in Times : t > clock /\ \A u \in Times : u > clock => t <= u
  /\ UNCHANGED <<store, counters, nOps, pc, loc, pre, res, lastPayment, decimal>>

(* --------------------------- decimal amounts --------------------------- *)
\* The amount columns are numeric(10,2) and the handlers compute on them as
\* JavaScript numbers, IEEE-754 doubles. When decimal is FALSE every amount
\* is a whole number of currency units and is held as an integer: doubles are
\* exact on integers of this size, so +, - and the comparisons are those of
\* the integers. When decimal is TRUE a column holds its value in cents and a
\* JavaScript number is a double: a sign and a magnitude in units of
\* 2^-FractionBits, written in Limbs digits of LimbBits bits each, the least
\* significant first. Every double that arises by + and - from amounts with
\* two decimals, of one cent and more, is a whole number of these units, so
\* the magnitude is exact; the last digit is the integer part.
LimbBits == 16
Limbs == 5
FractionBits == 64
\* the significand of a double
Precision == 53

Base == 2 ^ LimbBits
ZeroLimbs == <<0, 0, 0, 0, 0>>

\* the bit of weight 2^k units
Bit(m, k) == (m[(k \div LimbBits) + 1] \div 2 ^ (k % LimbBits)) % 2

\* the number of bits up to the leading 1, 0 for zero
Length(m) ==
  IF m = ZeroLimbs THEN 0
  ELSE 1 + CHOOSE k \in 0..(Limbs * LimbBits - 1) :
             Bit(m, k) = 1 /\ \A j \in (k + 1)..(Limbs * LimbBits - 1) : Bit(m, j) = 0

\* a + b from digit i up, with the carry into digit i
RECURSIVE AddFrom(_, _, _, _)
AddFrom(a, b, i, carry) ==
  IF i > Limbs THEN <<>>
  ELSE <<(a[i] + b[i] + carry) % Base>>
         \o AddFrom(a, b, i + 1, (a[i] + b[i] + carry) \div Base)

AddLimbs(a, b) == AddFrom(a, b, 1, 0)

\* a - b from digit i up, with the borrow out of digit i - 1
RECURSIVE SubFrom(_, _, _, _)
SubFrom(a, b, i, borrow) ==
  IF i > Limbs THEN <<>>
  ELSE <<(a[i] - b[i] - borrow + Base) % Base>>
         \o SubFrom(a, b, i + 1, IF a[i] - b[i] - borrow < 0 THEN 1 ELSE 0)

\* a - b, for a >= b
SubLimbs(a, b) == SubFrom(a, b, 1, 0)

LessLimbs(a, b) ==
  \E i \in 1..Limbs : a[i] < b[i] /\ \A j \in (i + 1)..Limbs : a[j] = b[j]

\* m * c from digit i up, for a small factor c
RECURSIVE TimesFrom(_, _, _, _)
TimesFrom(m, c, i, carry) ==
  IF i > Limbs THEN <<>>
  ELSE <<(m[i] * c + carry) % Base>>
         \o TimesFrom(m, c, i + 1, (m[i] * c + carry) \div Base)

\* 2^k units
PowerOfTwo(k) ==
  LET digit(i) == IF i = (k \div LimbBits) + 1 THEN 2 ^ (k % LimbBits) ELSE 0 IN
    <<digit(1), digit(2), digit(3), digit(4), digit(5)>>

\* m with its cut lowest bits cleared
Truncated(m, cut) ==
  LET digit(i) == IF LimbBits * i <= cut THEN 0
                  ELSE IF LimbBits * (i - 1) >= cut THEN m[i]
                  ELSE m[i] - (m[i] % 2 ^ (cut - LimbBits * (i - 1))) IN
    <<digit(1), digit(2), digit(3), digit(4), digit(5)>>

\* round to nearest, ties to even: the magnitude m, with inexact telling that
\* the exact value lies above m by less than one unit, rounded to Precision
\* significant bits
Rounded(m, inexact) ==
  LET cut == Length(m) - Precision IN
    IF cut <= 0 THEN m
    ELSE LET below == inexact \/ \E k \in 0..(cut - 2) : Bit(m, k) = 1
             up == Bit(m, cut - 1) = 1 /\ (below \/ Bit(m, cut) = 1) IN
           IF up THEN AddLimbs(Truncated(m, cut), PowerOfTwo(cut))
           ELSE Truncated(m, cut)

\* long division of n * 2^FractionBits by d from digit i down, with the
\* remainder so far: the digits of the quotient, after a first element that
\* is 1 when the division leaves a remainder
RECURSIVE DivideFrom(_, _, _, _)
DivideFrom(n, d, i, rest) ==
  IF i = 0 THEN <<IF rest # 0 THEN 1 ELSE 0>>
  ELSE LET part == IF i = Limbs THEN n ELSE rest * Base IN
         DivideFrom(n, d, i - 1, part % d) \o <<part \div d>>

\* the double nearest to n / d, for integers 0 <= n < Base and 0 < d < Base / 2
Nearest(n, d) ==
  LET quotient == DivideFrom(n, d, Limbs, 0) IN
    Rounded(Tail(quotient), Head(quotient) = 1)

Double(neg, limbs) == [neg |-> neg /\ limbs # ZeroLimbs, limbs |-> limbs]

\* the double a JSON number with two decimals parses to, given in cents
FromCents(cents) ==
  Double(cents < 0, Nearest(IF cents < 0 THEN 0 - cents ELSE cents, 100))

\* x + y on doubles: the exact sum, rounded
AddDouble(x, y) ==
  IF x.neg = y.neg THEN Double(x.neg, Rounded(AddLimbs(x.limbs, y.limbs), FALSE))
  ELSE IF LessLimbs(x.limbs, y.limbs)
  THEN Double(y.neg, Rounded(SubLimbs(y.limbs, x.limbs), FALSE))
  ELSE Double(x.neg, Rounded(SubLimbs(x.limbs, y.limbs), FALSE))

Negated(x) == Double(~x.neg, x.limbs)

LessDouble(x, y) ==
  IF x.neg # y.neg THEN x.neg
  ELSE IF x.neg THEN LessLimbs(y.limbs, x.limbs)
  ELSE LessLimbs(x.limbs, y.limbs)

\* what a numeric(…,2) column stores, in cents, for a double sent as JSON:
\* the number is written with the fewest digits that read back as the same
\* double, and the column rounds that text half away from zero. The text
\* ends in a half cent exactly when the double is the nearest one to it.
ToCents(x) ==
  LET hundredfold == TimesFrom(x.limbs, 100, 1, 0)
      floor == hundredfold[Limbs]
      halfCent == Nearest(2 * floor + 1, 200) = x.limbs
      cents == IF halfCent \/ Bit(hundredfold, FractionBits - 1) = 1
               THEN floor + 1 ELSE floor IN
    IF x.neg THEN 0 - cents ELSE cents

\* JavaScript numbers: the integer itself when the amounts are whole
Zero == IF decimal THEN Double(FALSE, ZeroLimbs) ELSE 0
\* Number(value) of an amount column
Number(x) == IF decimal THEN FromCents(x) ELSE x
\* what an amount column stores for a JavaScript number
Stored(x) == IF decimal THEN ToCents(x) ELSE x
Plus(x, y) == IF decimal THEN AddDouble(x, y) ELSE x + y
Minus(x, y) == IF decimal THEN AddDouble(x, Negated(y)) ELSE x - y
\* x <= 0
NotPositive(x) == IF decimal THEN x.neg \/ x.limbs = ZeroLimbs ELSE x <= 0
\* x >= y
AtLeast(x, y) == IF decimal THEN ~LessDouble(x, y) ELSE x >= y

(* ------------------- createAccountEntry (ledger append) ---------------- *)
\* payload.date ?? new Date(): the date given, else the clock as it reads when
\* the expression is evaluated
DateOrNow(date) == IF date = NoDate THEN Now ELSE date

\* the call createAccountEntry({clientId, invoiceId, debit, credit, createdAt}):
\* the arguments are evaluated by the caller, before the select of
\* getLatestBalance is awaited
CallCreateAccountEntry(l, invoiceId, debit, credit, at) ==
  [l EXCEPT !.entryInvoice = invoiceId, !.entryDebit = debit,
            !.entryCredit = credit, !.entryAt = at]

\* getLatestBalance: balanceAfter of the row with the greatest createdAt
getLatestBalance(p) ==
  /\ pc[p] = "ae_latest"
  /\ LET l == loc[p]
         mine == EntriesOf(l.clientId) IN
       IF mine = {}
       THEN Goto(p, "ae_insert", [l EXCEPT !.prev = Zero, !.prevId = NoId,
                                           !.readAt = nextEntry])
       ELSE \E e \in Latest(mine) :
              Goto(p, "ae_insert", [l EXCEPT !.prev = Number(e.balanceAfter),
                                             !.prevId = e.id,
                                             !.readAt = nextEntry])
  /\ UNCHANGED <<clock, store, counters>>

\* gen_random_uuid(): the new id falls anywhere among the existing ones. Ids
\* are compared only between rows of one client with equal createdAt, so the
\* places that differ are: before one of those rows, or after all rows.
UuidPlaces(clientId, at) ==
  {k \in 0..Len(uuidOrder) :
     \/ k = Len(uuidOrder)
     \/ \E e \in entries : /\ e.id = uuidOrder[k + 1]
                           /\ e.clientId = clientId
                           /\ e.createdAt = at}

\* variant: the previous balance is left out
nextBalance_fromZero(previousBalance, debit, credit) == debit - credit

\* variant: the credit is added to the balance
nextBalance_added(previousBalance, debit, credit) == previousBalance + debit + credit

nextBalance(previousBalance, debit, credit) ==
  Minus(Plus(previousBalance, debit), credit)

\* variant: the insert computes the balance from the ledger as it is then
createAccountEntry_fresh(p) ==
  /\ pc[p] = "ae_insert"
  /\ LET l == loc[p] IN
       IF InvoiceById(l.entryInvoice) = {}
       THEN /\ Finish(p, "error", l)
            /\ UNCHANGED <<clock, store, counters>>
       ELSE \E k \in UuidPlaces(l.clientId, l.entryAt),
               fresh \in LatestBalances(EntriesOf(l.clientId)) :
              /\ entries' = entries \cup
                   {[id |-> nextEntry + 1, clientId |-> l.clientId,
                     invoiceId |-> l.entryInvoice,
                     debit |-> Stored(l.entryDebit),
                     credit |-> Stored(l.entryCredit),
                     balanceAfter |->
                       Stored(nextBalance(Number(fresh), l.entryDebit,
                                          l.entryCredit)),
                     createdAt |-> l.entryAt]}
              /\ nextEntry' = nextEntry + 1
              /\ uuidOrder' = InsertAt(uuidOrder, k, nextEntry + 1)
              /\ Finish(p, "ok", [l EXCEPT !.entryId = nextEntry + 1])
              /\ UNCHANGED <<clock, orders, invoices, payments, nextInvoice,
                             nextPayment>>

\* the insert of createAccountEntry; the foreign key on invoiceId rejects a
\* row whose invoice is gone
createAccountEntry(p) ==
  /\ pc[p] = "ae_insert"
  /\ LET l == loc[p] IN
       IF InvoiceById(l.entryInvoice) = {}
       THEN /\ Finish(p, "error", l)
            /\ UNCHANGED <<clock, store, counters>>
       ELSE \E k \in UuidPlaces(l.clientId, l.entryAt) :
              /\ entries' = entries \cup
                   {[id |-> nextEntry + 1, clientId |-> l.clientId,
                     invoiceId |-> l.entryInvoice,
                     debit |-> Stored(l.entryDebit),
                     credit |-> Stored(l.entryCredit),
                     balanceAfter |->
                       Stored(nextBalance(l.prev, l.entryDebit, l.entryCredit)),
                     createdAt |-> l.entryAt]}
              /\ nextEntry' = nextEntry + 1
              /\ uuidOrder' = InsertAt(uuidOrder, k, nextEntry + 1)
              /\ Finish(p, "ok", [l EXCEPT !.entryId = nextEntry + 1])
              /\ UNCHANGED <<clock, orders, invoices, payments, nextInvoice,
                             nextPayment>>

(* ----------------------- createInvoiceFromOrder ------------------------ *)
priceForWorkType(workType) ==
  IF workType = NullType THEN 0
  ELSE IF workType \in DOMAIN WORK_TYPE_PRICES THEN WORK_TYPE_PRICES[workType]
  ELSE 0

\* Number(order.price ?? 0)
StampedPrice(price) == IF price = NullPrice THEN 0 ELSE price

\* variant: the stamped price wins over the table price
finalAmount_stampedFirst(order) ==
  IF StampedPrice(order.price) > 0 THEN StampedPrice(order.price)
  ELSE priceForWorkType(order.workType)

\* the table price when it is > 0, else the stamped price
finalAmount(order) ==
  LET amountFromWorkType == priceForWorkType(order.workType) IN
    IF amountFromWorkType > 0 THEN amountFromWorkType ELSE StampedPrice(order.price)

BeginCreateInvoice(p, orderId) ==
  Begin(p, "ci_order", [NoLoc EXCEPT !.op = "createInvoice", !.orderId = orderId])

\* select the order; reject a missing order, a missing dentist, an unfinished order
ciLoadOrder(p) ==
  /\ pc[p] = "ci_order"
  /\ LET l == loc[p] IN
       IF l.orderId \notin DOMAIN orders THEN Finish(p, "error", l)
       ELSE LET order == orders[l.orderId] IN
         IF order.dentistId \notin Clients THEN Finish(p, "error", l)
         ELSE IF order.status \notin {"DONE", "DELIVERED"} THEN Finish(p, "error", l)
         ELSE Goto(p, "ci_existing",
                   [l EXCEPT !.order = order, !.clientId = order.dentistId])
  /\ UNCHANGED <<clock, store, counters>>

\* variant: an order that already has an invoice is invoiced again
ciLookupExisting_noDuplicateCheck(p) ==
  /\ pc[p] = "ci_existing"
  /\ LET l == loc[p]
         amount == finalAmount(l.order) IN
       IF Falsy(amount) \/ amount <= 0 THEN Finish(p, "error", l)
       ELSE Pass(p, "ci_insert", [l EXCEPT !.finalAmount = amount])
  /\ UNCHANGED <<clock, store, counters>>

\* look up an invoice of the order; reject a duplicate and an undetermined amount
ciLookupExisting(p) ==
  /\ pc[p] = "ci_existing"
  /\ LET l == loc[p]
         amount == finalAmount(l.order) IN
       IF {i \in invoices : i.workOrderId = l.orderId} # {} THEN Finish(p, "error", l)
       ELSE IF Falsy(amount) \/ amount <= 0 THEN Finish(p, "error", l)
       ELSE Pass(p, "ci_insert", [l EXCEPT !.finalAmount = amount])
  /\ UNCHANGED <<clock, store, counters>>

\* insert the invoice, PENDING, createdAt = now()
ciInsertInvoice(p) ==
  /\ pc[p] = "ci_insert"
  /\ LET l == loc[p]
         invoice == [id |-> nextInvoice + 1, clientId |-> l.clientId,
                     workOrderId |-> l.orderId, amount |-> l.finalAmount,
                     status |-> "PENDING", createdAt |-> Now] IN
       /\ invoices' = invoices \cup {invoice}
       /\ nextInvoice' = nextInvoice + 1
       /\ LET l2 == [l EXCEPT !.invoice = invoice] IN
            IF Falsy(StampedPrice(l.order.price))
            THEN Goto(p, "ci_backfill", l2)
            ELSE Goto(p, "ae_latest",
                      CallCreateAccountEntry(l2, invoice.id, l.finalAmount, 0,
                                             invoice.createdAt))
  /\ UNCHANGED <<clock, orders, payments, entries, nextPayment, nextEntry,
                 uuidOrder>>

\* backfill the work order's price when it had none
ciBackfillPrice(p) ==
  /\ pc[p] = "ci_backfill"
  /\ LET l == loc[p] IN
       /\ orders' = [orders EXCEPT ![l.orderId].price = l.finalAmount]
       /\ Goto(p, "ae_latest",
               CallCreateAccountEntry(l, l.invoice.id, l.finalAmount, 0,
                                      l.invoice.createdAt))
  /\ UNCHANGED <<clock, invoices, payments, entries, counters>>

(* ----------------------------- work orders ----------------------------- *)
\* the handler goes on after a call that leaves its result in l: it returns,
\* or moves to the store call named in l.after
Resume(p, l) ==
  IF l.after = "done" THEN Finish(p, "ok", l) ELSE Goto(p, l.after, l)

\* loadWorkOrderWithRelations: the order again, then its events and its files
loadWorkOrderWithRelations(p) ==
  /\ pc[p] = "wo_reload"
  /\ Goto(p, "wo_reload_events", loc[p])
  /\ UNCHANGED <<clock, store, counters>>

\* Promise.all of the events select and the files select: neither touches
\* the billing tables, so the order in which they answer makes no difference
loadWorkOrderEvents(p) ==
  /\ pc[p] = "wo_reload_events"
  /\ Goto(p, "wo_reload_files", loc[p])
  /\ UNCHANGED <<clock, store, counters>>

loadWorkOrderFiles(p) ==
  /\ pc[p] = "wo_reload_files"
  /\ Resume(p, loc[p])
  /\ UNCHANGED <<clock, store, counters>>

\* PUT /api/work-orders/:id with a status and none of the updatable keys: the
\* route tests the status against Object.values(WorkOrderStatus), a name it
\* imports as a type only, so at run time the test throws a ReferenceError
\* before any store call; the catch block answers 500 (a form submission is
\* redirected with the error) and updateWorkOrderStatus is not called
BeginUpdateStatus(p, orderId, status) ==
  Begin(p, "us_route", [NoLoc EXCEPT !.op = "updateStatus", !.orderId = orderId,
                                    !.target = status])

handleUpdateRequest(p) ==
  /\ pc[p] = "us_route"
  /\ Finish(p, "error", loc[p])
  /\ UNCHANGED <<clock, store, counters>>

(* ------------------------ markOrderAsDelivered ------------------------- *)
\* updateWorkOrderStatus(order, DELIVERED), then the invoice lookup
BeginDeliver(p, orderId) ==
  Begin(p, "md_status", [NoLoc EXCEPT !.op = "deliver", !.orderId = orderId,
                                     !.target = "DELIVERED",
                                     !.after = "md_lookup"])

\* updateWorkOrderStatus(order, status): select the order; an order that has
\* the status already is returned as it is, a transition that is not allowed
\* throws
updateWorkOrderStatus(p) ==
  /\ pc[p] = "md_status"
  /\ LET l == loc[p] IN
       IF l.orderId \notin DOMAIN orders THEN Finish(p, "error", l)
       ELSE IF orders[l.orderId].status = l.target THEN Resume(p, l)
       ELSE IF l.target \notin statusTransitions[orders[l.orderId].status]
       THEN Finish(p, "error", l)
       ELSE Goto(p, "md_update", l)
  /\ UNCHANGED <<clock, store, counters>>

\* update work_orders set status = data.status where id = existing.id
updateStatusWrite(p) ==
  /\ pc[p] = "md_update"
  /\ orders' = [orders EXCEPT ![loc[p].orderId].status = loc[p].target]
  /\ Goto(p, "md_event", loc[p])
  /\ UNCHANGED <<clock, invoices, payments, entries, counters>>

\* insert into work_order_events: the result is not read
insertStatusEvent(p) ==
  /\ pc[p] = "md_event"
  /\ Goto(p, "wo_reload", loc[p])
  /\ UNCHANGED <<clock, store, counters>>

\* the steps of updateWorkOrderStatus after its select
StepStatus(p) ==
  \/ updateStatusWrite(p)
  \/ insertStatusEvent(p)
  \/ loadWorkOrderWithRelations(p)
  \/ loadWorkOrderEvents(p)
  \/ loadWorkOrderFiles(p)

\* look up the order's invoice; create it when there is none
markOrderAsDelivered(p) ==
  /\ pc[p] = "md_lookup"
  /\ LET l == loc[p] IN
       IF {i \in invoices : i.workOrderId = l.orderId} # {}
       THEN Finish(p, "ok", l)
       ELSE Goto(p, "ci_order", l)
  /\ UNCHANGED <<clock, store, counters>>

(* ----------------------- recordDeliveryFromWebhook --------------------- *)
BeginWebhookDelivery(p, orderCode) ==
  Begin(p, "wh_order", [NoLoc EXCEPT !.op = "webhookDelivery",
                                    !.orderId = orderCode])

\* select the order by its code; an unknown code answers { ok: false }
whLoadOrder(p) ==
  /\ pc[p] = "wh_order"
  /\ LET l == loc[p] IN
       IF l.orderId \notin DOMAIN orders THEN Finish(p, "error", l)
       ELSE IF orders[l.orderId].status = "DELIVERED" THEN Goto(p, "wh_event", l)
       ELSE Pass(p, "wh_update", l)
  /\ UNCHANGED <<clock, store, counters>>

\* update work_orders set status = DELIVERED, whatever the status was
whUpdateStatus(p) ==
  /\ pc[p] = "wh_update"
  /\ orders' = [orders EXCEPT ![loc[p].orderId].status = "DELIVERED"]
  /\ Goto(p, "wh_event", loc[p])
  /\ UNCHANGED <<clock, invoices, payments, entries, counters>>

\* insert the delivery event
whInsertEvent(p) ==
  /\ pc[p] = "wh_event"
  /\ Finish(p, "ok", loc[p])
  /\ UNCHANGED <<clock, store, counters>>

(* ---------------------------- updateWorkOrder -------------------------- *)
\* a field the request does not carry (undefined)
Absent == "ABSENT"
AbsentPrice == -2
NoPatch == [dentistId |-> Absent, workType |-> Absent, price |-> AbsentPrice]
\* the bodies a caller sends: nothing, a price, a work type, a dentist
Patches ==
  {NoPatch, [NoPatch EXCEPT !.price = 120],
   [NoPatch EXCEPT !.workType = "REPARACION"],
   [NoPatch EXCEPT !.dentistId = "c2"]}

BeginUpdateWorkOrder(p, orderId, patch) ==
  Begin(p, "uw_order", [NoLoc EXCEPT !.op = "updateWorkOrder",
                                    !.orderId = orderId, !.patch = patch])

\* getWorkOrderById: select the order, then load it with its relations; with
\* no field to update the handler returns the order as it is
uwLoadOrder(p) ==
  /\ pc[p] = "uw_order"
  /\ LET l == loc[p] IN
       IF l.orderId \notin DOMAIN orders THEN Finish(p, "error", l)
       ELSE Goto(p, "wo_reload",
                 [l EXCEPT !.after = IF l.patch = NoPatch THEN "done"
                                     ELSE "uw_update"])
  /\ UNCHANGED <<clock, store, counters>>

\* updateData: the fields the request carries
updateData(order, patch) ==
  [dentistId |-> IF patch.dentistId = Absent THEN order.dentistId
                 ELSE patch.dentistId,
   status |-> order.status,
   workType |-> IF patch.workType = Absent THEN order.workType
                ELSE patch.workType,
   price |-> IF patch.price = AbsentPrice THEN order.price ELSE patch.price]

\* update work_orders set updateData where id = workOrderId, then load the
\* order with its relations
uwUpdate(p) ==
  /\ pc[p] = "uw_update"
  /\ LET l == loc[p] IN
       /\ orders' = [orders EXCEPT ![l.orderId] = updateData(@, l.patch)]
       /\ Pass(p, "wo_reload", [l EXCEPT !.after = "done"])
  /\ UNCHANGED <<clock, invoices, payments, entries, counters>>

(* ---------------------------- createWorkOrder -------------------------- *)
\* the ids the store gives to new orders, in the order it gives them
NewOrderIds == <<"n1", "n2", "n3">>
NewOrders == DOMAIN orders \ DOMAIN InitOrders

BeginCreateWorkOrder(p, dentistId, workType) ==
  Begin(p, "cw_seq", [NoLoc EXCEPT !.op = "createWorkOrder",
                                  !.clientId = dentistId,
                                  !.patch = [NoPatch EXCEPT !.workType = workType]])

\* nextSequential: select the greatest sequentialNumber
cwNextSequential(p) ==
  /\ pc[p] = "cw_seq"
  /\ Pass(p, "cw_insert", loc[p])
  /\ UNCHANGED <<clock, store, counters>>

\* insert the order: the payload carries no status and no price, so the row
\* has the defaults CREATED and null
cwInsert(p) ==
  /\ pc[p] = "cw_insert"
  /\ LET l == loc[p]
         id == NewOrderIds[Cardinality(NewOrders) + 1]
         created == [dentistId |-> l.clientId, status |-> "CREATED",
                     workType |-> l.patch.workType, price |-> NullPrice] IN
       /\ orders' = [o \in DOMAIN orders \cup {id} |->
                       IF o = id THEN created ELSE orders[o]]
       /\ Goto(p, "cw_event", [l EXCEPT !.orderId = id])
  /\ UNCHANGED <<clock, invoices, payments, entries, counters>>

\* insert the WORK_ORDER_CREATED event, then load the order with its
\* relations; the request carries no files and no due date
cwInsertEvent(p) ==
  /\ pc[p] = "cw_event"
  /\ Goto(p, "wo_reload", [loc[p] EXCEPT !.after = "done"])
  /\ UNCHANGED <<clock, store, counters>>

\* the steps of the work-order handlers
StepOrders(p) ==
  \/ handleUpdateRequest(p)
  \/ updateWorkOrderStatus(p)
  \/ StepStatus(p)
  \/ markOrderAsDelivered(p)
  \/ whLoadOrder(p)
  \/ whUpdateStatus(p)
  \/ whInsertEvent(p)
  \/ uwLoadOrder(p)
  \/ uwUpdate(p)
  \/ cwNextSequential(p)
  \/ cwInsert(p)
  \/ cwInsertEvent(p)

(* ---------------------------- recordPayment ---------------------------- *)
\* variant: only a zero or non-numeric amount is rejected
InvalidAmount_lax(a) == Falsy(a)

\* payload.amount <= 0 or not a number: !amount || amount <= 0
InvalidAmount(a) ==
  IF decimal THEN NotPositive(a) ELSE Falsy(a) \/ (a # NaN /\ a <= 0)

BeginRecordPayment(p, clientId, amount, date) ==
  Begin(p, "rp_client", [NoLoc EXCEPT !.op = "recordPayment", !.clientId = clientId,
                                     !.amount = amount, !.date = date])

\* select the client; reject an unknown client, then a non-positive amount
rpValidate(p) ==
  /\ pc[p] = "rp_client"
  /\ LET l == loc[p] IN
       IF l.clientId \notin Clients THEN Finish(p, "error", l)
       ELSE IF InvalidAmount(l.amount) THEN Finish(p, "error", l)
       ELSE Pass(p, "rp_invoices", l)
  /\ UNCHANGED <<clock, store, counters>>

\* variant: the PENDING invoices of every client
rpLoadInvoices_anyClient(p) ==
  /\ pc[p] = "rp_invoices"
  /\ \E q \in OrderByCreatedAt({i \in invoices : i.status = "PENDING"}) :
       Goto(p, "rp_payments", [loc[p] EXCEPT !.list = q])
  /\ UNCHANGED <<clock, store, counters>>

\* the client's PENDING invoices, by createdAt ascending
rpLoadInvoices(p) ==
  /\ pc[p] = "rp_invoices"
  /\ \E q \in OrderByCreatedAt({i \in invoices : i.clientId = loc[p].clientId
                                                /\ i.status = "PENDING"}) :
       Goto(p, "rp_payments", [loc[p] EXCEPT !.list = q])
  /\ UNCHANGED <<clock, store, counters>>

\* the index of the next loaded invoice with outstanding > 0, from idx on
RECURSIVE NextPayable(_, _, _)
NextPayable(list, paid, idx) ==
  IF idx > Len(list) THEN idx
  ELSE IF NotPositive(Minus(Number(list[idx].amount), paid[list[idx].id]))
       THEN NextPayable(list, paid, idx + 1)
       ELSE idx

\* variant: the entry credits what was allocated, not what was paid in
entryCredit_allocated(amount, remaining) == amount - remaining

\* credit: payload.amount, the full input amount whatever was allocated
entryCredit(amount, remaining) == amount

\* the turn in which a store call of the allocation loop has answered: the
\* loop goes on from index idx to its next store call. The createdAt of the
\* next payment row, or of the ledger row, is evaluated here, when the call is
\* issued; the store executes the call in a later step.
rpAdvance(p) ==
  /\ pc[p] = "rp_next"
  /\ LET l == loc[p]
         j == NextPayable(l.list, l.paid, l.idx) IN
       IF NotPositive(l.remaining) \/ j > Len(l.list)
       THEN IF l.first = NoId
            THEN Goto(p, "rp_any", l)
            ELSE Goto(p, "ae_latest",
                      CallCreateAccountEntry(l, l.first, Zero,
                                             entryCredit(l.amount, l.remaining),
                                             DateOrNow(l.date)))
       ELSE Goto(p, "rp_insert", [l EXCEPT !.idx = j,
                                           !.paymentAt = DateOrNow(l.date)])
  /\ UNCHANGED <<clock, store, counters>>

\* paymentsByInvoice.get(id) ?? 0 after the loop over the payments rows q,
\* taken in the order in which the select returned them: each row of the
\* invoice adds Number(payment.amount) to the sum so far
RECURSIVE paidAmount(_, _)
paidAmount(q, id) ==
  IF q = <<>> THEN Zero
  ELSE LET current == paidAmount(SubSeq(q, 1, Len(q) - 1), id)
           payment == q[Len(q)] IN
         IF payment.invoiceId = id THEN Plus(current, Number(payment.amount))
         ELSE current

\* the payments already recorded on the loaded invoices, summed per invoice
paymentsByInvoice(list, q) ==
  [id \in {list[k].id : k \in 1..Len(list)} |-> paidAmount(q, id)]

\* the payments of the loaded invoices: the select has no order by, so the
\* rows come in any order
rpLoadPayments(p) ==
  /\ pc[p] = "rp_payments"
  /\ LET l == loc[p]
         rows == {q \in payments :
                    \E k \in 1..Len(l.list) : l.list[k].id = q.invoiceId} IN
       \E q \in Perms(rows) :
         Goto(p, "rp_next", [l EXCEPT !.paid = paymentsByInvoice(l.list, q),
                                      !.remaining = l.amount, !.first = NoId,
                                      !.created = <<>>, !.idx = 1])
  /\ UNCHANGED <<clock, store, counters>>

\* variant: the whole remainder goes to the first invoice reached
applied_all(outstandingAmount, remaining) == remaining

\* min(outstanding, remaining)
applied(outstandingAmount, remaining) ==
  IF AtLeast(outstandingAmount, remaining) THEN remaining ELSE outstandingAmount

\* variant: the amount left to allocate is never reduced
remainingLeft_kept(remaining, app) == remaining

\* remaining -= applied
remainingLeft(remaining, app) == Minus(remaining, app)

\* insert one payment row on the invoice at idx; the row carries the
\* createdAt the request evaluated when it issued the insert
rpInsertPayment(p) ==
  /\ pc[p] = "rp_insert"
  /\ LET l == loc[p]
         invoice == l.list[l.idx]
         outstandingAmount == Minus(Number(invoice.amount), l.paid[invoice.id])
         app == applied(outstandingAmount, l.remaining)
         payment == [id |-> nextPayment + 1, invoiceId |-> invoice.id,
                     amount |-> Stored(app), createdAt |-> l.paymentAt] IN
       IF InvoiceById(invoice.id) = {}
       THEN /\ Finish(p, "error", l)
            /\ UNCHANGED <<payments, nextPayment>>
       ELSE /\ payments' = payments \cup {payment}
            /\ nextPayment' = nextPayment + 1
            /\ LET l2 == [l EXCEPT !.first = IF l.first = NoId THEN invoice.id
                                            ELSE l.first,
                                   !.applied = app, !.payment = payment] IN
                 IF NotPositive(Minus(outstandingAmount, app))
                 THEN Goto(p, "rp_status", l2)
                 ELSE Goto(p, "rp_next",
                           [l2 EXCEPT !.remaining = remainingLeft(l.remaining, app),
                                      !.created = Append(l.created, payment),
                                      !.idx = l.idx + 1])
  /\ UNCHANGED <<clock, orders, invoices, entries, nextInvoice, nextEntry,
                 uuidOrder>>

\* the invoice at idx is covered: set it PAID
rpMarkPaid(p) ==
  /\ pc[p] = "rp_status"
  /\ LET l == loc[p]
         id == l.list[l.idx].id IN
       /\ invoices' = {IF i.id = id THEN [i EXCEPT !.status = "PAID"] ELSE i :
                         i \in invoices}
       /\ Goto(p, "rp_next",
               [l EXCEPT !.remaining = remainingLeft(l.remaining, l.applied),
                         !.created = Append(l.created, l.payment),
                         !.idx = l.idx + 1])
  /\ UNCHANGED <<clock, orders, payments, entries, counters>>

\* no invoice received an allocation: take the client's most recent invoice
rpAnyInvoice(p) ==
  /\ pc[p] = "rp_any"
  /\ LET l == loc[p]
         mine == {i \in invoices : i.clientId = l.clientId} IN
       IF mine = {} THEN Finish(p, "ok", l)
       ELSE \E anyInvoice \in Latest(mine) :
              Goto(p, "rp_ledger", [l EXCEPT !.first = anyInvoice.id])
  /\ UNCHANGED <<clock, store, counters>>

\* the turn in which the select of the most recent invoice has answered with
\* a row: the ledger call is made and its createdAt evaluated
rpLedgerCall(p) ==
  /\ pc[p] = "rp_ledger"
  /\ LET l == loc[p] IN
       Goto(p, "ae_latest",
            CallCreateAccountEntry(l, l.first, Zero,
                                   entryCredit(l.amount, l.remaining),
                                   DateOrNow(l.date)))
  /\ UNCHANGED <<clock, store, counters>>

(* -------------------------- recomputeBalances -------------------------- *)
\* where a handler goes on after its recomputeBalances call
rcReturn(p, l) ==
  IF l.op = "editInvoiceAmount" THEN Goto(p, "pa_payments", l)
  ELSE IF l.op = "deletePayment" THEN Goto(p, "dp_remaining", l)
  ELSE Finish(p, "ok", l)

\* variant: the replay starts from the balance on the last row it reads
replayStart_latest(mine) ==
  IF mine = {} THEN 0
  ELSE LET q == OrderByCreatedAtId(mine, uuidOrder) IN q[Len(q)].balanceAfter

\* let running = 0: the replay starts from zero whatever the ledger holds
replayStart(mine) == 0

\* variant: the select has no clientId filter
rcLoad_allClients(p) ==
  /\ pc[p] = "rc_load"
  /\ LET l == loc[p]
         rows == OrderByCreatedAtId(entries, uuidOrder)
         snap == [k \in 1..Len(rows) |->
                    [id |-> rows[k].id, debit |-> rows[k].debit,
                     credit |-> rows[k].credit, createdAt |-> rows[k].createdAt]]
         l2 == [l EXCEPT !.snap = snap,
                         !.running = replayStart(entries),
                         !.idx = 1] IN
       IF Len(snap) = 0 THEN rcReturn(p, l2) ELSE Goto(p, "rc_update", l2)
  /\ UNCHANGED <<clock, store, counters>>

\* select id, debit, credit, createdAt of the client's entries by (createdAt, id)
rcLoad(p) ==
  /\ pc[p] = "rc_load"
  /\ LET l == loc[p]
         rows == OrderByCreatedAtId(EntriesOf(l.clientId), uuidOrder)
         snap == [k \in 1..Len(rows) |->
                    [id |-> rows[k].id, debit |-> rows[k].debit,
                     credit |-> rows[k].credit, createdAt |-> rows[k].createdAt]]
         l2 == [l EXCEPT !.snap = snap,
                         !.running = replayStart(EntriesOf(l.clientId)),
                         !.idx = 1] IN
       IF Len(snap) = 0 THEN rcReturn(p, l2) ELSE Goto(p, "rc_update", l2)
  /\ UNCHANGED <<clock, store, counters>>

\* variant: the credit is added to the running sum
running_added(r, entry) == r + toNumber(entry.debit) + toNumber(entry.credit)

\* running = running + debit - credit, on the values the select returned
running(r, entry) == r + toNumber(entry.debit) - toNumber(entry.credit)

\* write the running sum into the entry at idx
rcUpdate(p) ==
  /\ pc[p] = "rc_update"
  /\ LET l == loc[p]
         entry == l.snap[l.idx]
         r == running(l.running, entry)
         l2 == [l EXCEPT !.running = r, !.idx = l.idx + 1] IN
       /\ entries' = {IF e.id = entry.id THEN [e EXCEPT !.balanceAfter = r] ELSE e :
                        e \in entries}
       /\ IF l2.idx > Len(l.snap) THEN rcReturn(p, l2) ELSE Goto(p, "rc_update", l2)
  /\ UNCHANGED <<clock, orders, invoices, payments, counters>>

(* ------------------------- getStatementByClient ------------------------ *)
\* one day in ms, and a null work-order reference
Day == 86400000
NullOrder == "NULL"

\* formatWorkTypeLabel: the segments between underscores, capitalised
formatWorkTypeLabel(value) ==
  CASE value = NullType -> "Orden de trabajo"
    [] value = "PROTESIS" -> "Protesis"
    [] value = "CORONA_ZIRCONIA" -> "Corona Zirconia"
    [] value = "CORONA_A_PERNO" -> "Corona A Perno"
    [] value = "MODELO_IMPRESO" -> "Modelo Impreso"
    [] value = "TERMINACION_1_A_5" -> "Terminacion 1 A 5"
    [] value = "TERMINACION_6_A_10" -> "Terminacion 6 A 10"
    [] value = "REPARACION" -> "Reparacion"
    [] value = "PROVISORIO" -> "Provisorio"
    [] value = "GANCHO_LABRADO" -> "Gancho Labrado"

\* the name of the patient joined to a work order (patient:patientId(name)):
\* work_orders.patientId is not null and references patients, whose name is
\* not null, so every order has one; a name may be the empty string
PatientName(orderId) ==
  CASE orderId \in {"o1", "o3"} -> "Ana"
    [] orderId = "o2" -> ""
    [] OTHER -> "Luis"

\* payment.providerRef: the note of the payment, '' when it has none
ProviderRef(payment) ==
  IF "providerRef" \in DOMAIN payment THEN payment.providerRef ELSE ""

\* endOfDay.setHours(23, 59, 59, 999), the server running in UTC
endOfDay(to) == to - (to % Day) + Day - 1

\* the gte / lte filters on createdAt, each applied when its bound is given
InRange(t, from, to) ==
  /\ from # NoDate => t >= from
  /\ to # NoDate => t <= endOfDay(to)

\* no work order loaded
NoOrders == [o \in {} |-> <<>>]

BeginStatement(p, clientId, from, to) ==
  Begin(p, "gs_client", [NoLoc EXCEPT !.op = "getStatement", !.clientId = clientId,
                                     !.from = from, !.to = to])

Abs(x) == IF x < 0 THEN 0 - x ELSE x

\* Array.prototype.find over the payments as the select returned them: the
\* index of the first one with the entry's credit as amount and a createdAt
\* less than the window away, 0 when there is none
RECURSIVE paymentMatch(_, _, _, _)
paymentMatch(pays, entry, credit, k) ==
  IF k > Len(pays) THEN 0
  ELSE IF /\ toNumber(pays[k].amount) = credit
          /\ Abs(pays[k].createdAt - entry.createdAt) < Window
       THEN k
       ELSE paymentMatch(pays, entry, credit, k + 1)

\* variant: a row with neither a debit nor a credit counts as a payment
tipo_pago(debit, credit) == IF debit > 0 THEN "FACTURA" ELSE "PAGO"

tipo(debit, credit) ==
  IF debit > 0 THEN "FACTURA" ELSE IF credit > 0 THEN "PAGO" ELSE "MOVIMIENTO"

\* the DTO of one ledger row
statementRow(entry, invs, ords, pays) ==
  LET debit == toNumber(entry.debit)
      credit == toNumber(entry.credit)
      found == {i \in invs : i.id = entry.invoiceId}
      hasInvoice == found # {}
      invoice == CHOOSE i \in found : TRUE
      hasOrder == hasInvoice /\ invoice.workOrderId # NullOrder
                    /\ invoice.workOrderId \in DOMAIN ords
      order == ords[invoice.workOrderId]
      t == tipo(debit, credit)
      m == IF t = "PAGO" THEN paymentMatch(pays, entry, credit, 1) ELSE 0 IN
    [fecha |-> entry.createdAt,
     tipo |-> t,
     compNro |-> [displayCode |-> IF t = "FACTURA" /\ hasOrder
                                  THEN invoice.workOrderId ELSE "",
                  invoiceId |-> IF hasInvoice /\ ~(t = "FACTURA" /\ hasOrder)
                                THEN invoice.id ELSE NoId],
     ordenId |-> IF hasInvoice THEN invoice.workOrderId ELSE NullOrder,
     detalle |-> CASE t = "FACTURA" ->
                        IF hasOrder /\ order.workType # NullType
                        THEN formatWorkTypeLabel(order.workType)
                        ELSE "Factura emitida"
                   [] t = "PAGO" ->
                        IF m # 0 /\ ProviderRef(pays[m]) # ""
                        THEN ProviderRef(pays[m]) ELSE "Pago registrado"
                   [] OTHER -> "Movimiento de cuenta",
     paciente |-> IF t = "FACTURA" /\ hasOrder
                  THEN PatientName(invoice.workOrderId) ELSE "-",
     facturas |-> debit,
     entregas |-> credit,
     saldoAcumulado |-> toNumber(entry.balanceAfter),
     paymentId |-> IF m # 0 THEN pays[m].id ELSE NoId,
     invoiceId |-> IF hasInvoice THEN invoice.id ELSE NoId]

RECURSIVE SumField(_, _)
SumField(q, f) == IF q = <<>> THEN 0 ELSE toNumber(Head(q)[f]) + SumField(Tail(q), f)

saldo(facturasTotal, entregasTotal) == facturasTotal - entregasTotal

\* rows and totals, from what the four selects returned
statement(l, invs, ords, pays) ==
  [l EXCEPT !.rows = [k \in 1..Len(l.ledger) |->
                        statementRow(l.ledger[k], invs, ords, pays)],
            !.totals = [facturas |-> SumField(l.ledger, "debit"),
                        entregas |-> SumField(l.ledger, "credit"),
                        saldo |-> saldo(SumField(l.ledger, "debit"),
                                        SumField(l.ledger, "credit"))]]

\* select the client from user_profiles
gsClient(p) ==
  /\ pc[p] = "gs_client"
  /\ IF loc[p].clientId \notin Clients THEN Finish(p, "error", loc[p])
     ELSE Goto(p, "gs_entries", loc[p])
  /\ UNCHANGED <<clock, store, counters>>

\* the client's entries in the date range, by createdAt ascending
gsLoadEntries(p) ==
  /\ pc[p] = "gs_entries"
  /\ LET l == loc[p] IN
       \E q \in OrderByCreatedAt({e \in EntriesOf(l.clientId) :
                                    InRange(e.createdAt, l.from, l.to)}) :
         IF Len(q) = 0
         THEN Finish(p, "ok", statement([l EXCEPT !.ledger = q], {}, NoOrders, <<>>))
         ELSE Goto(p, "gs_invoices", [l EXCEPT !.ledger = q])
  /\ UNCHANGED <<clock, store, counters>>

\* the invoices the entries name
gsLoadInvoices(p) ==
  /\ pc[p] = "gs_invoices"
  /\ LET l == loc[p]
         invoiceIds == {l.ledger[k].invoiceId : k \in 1..Len(l.ledger)}
         invs == {i \in invoices : i.id \in invoiceIds} IN
       IF \E i \in invs : i.workOrderId # NullOrder
       THEN Goto(p, "gs_orders", [l EXCEPT !.invs = invs])
       ELSE Goto(p, "gs_payments", [l EXCEPT !.invs = invs, !.ords = NoOrders])
  /\ UNCHANGED <<clock, store, counters>>

\* the work orders those invoices name
gsLoadOrders(p) ==
  /\ pc[p] = "gs_orders"
  /\ LET l == loc[p]
         workOrderIds == {i.workOrderId : i \in l.invs} \cap DOMAIN orders IN
       Goto(p, "gs_payments", [l EXCEPT !.ords = [o \in workOrderIds |-> orders[o]]])
  /\ UNCHANGED <<clock, store, counters>>

\* the payments of the invoices the entries name, in the order the store
\* returns them (the select has no order by), then the rows and the totals
gsLoadPayments(p) ==
  /\ pc[p] = "gs_payments"
  /\ LET l == loc[p]
         invoiceIds == {l.ledger[k].invoiceId : k \in 1..Len(l.ledger)} IN
       \E pays \in Perms({q \in payments : q.invoiceId \in invoiceIds}) :
         Finish(p, "ok", statement(l, l.invs, l.ords, pays))
  /\ UNCHANGED <<clock, store, counters>>

\* a select answers with an error: data is null. The client, invoice and
\* work-order results are used as they come (a null client is "not found",
\* null.map throws); the ledger read tests its error
UncheckedReads == {"gs_client", "gs_invoices", "gs_orders"}

gsReadFails(p) ==
  /\ pc[p] \in UncheckedReads \cup {"gs_entries"}
  /\ Finish(p, "error", [loc[p] EXCEPT !.failed = TRUE, !.failedAt = pc[p]])
  /\ UNCHANGED <<clock, store, counters>>

\* variant: a failed payments select makes the statement fail
gsLoadPaymentsFails_throws(p) ==
  /\ pc[p] = "gs_payments"
  /\ Finish(p, "error", [loc[p] EXCEPT !.failed = TRUE, !.failedAt = pc[p]])
  /\ UNCHANGED <<clock, store, counters>>

\* the payments select fails: (payments ?? []) makes it an empty list
gsLoadPaymentsFails(p) ==
  /\ pc[p] = "gs_payments"
  /\ Finish(p, "ok", statement([loc[p] EXCEPT !.failed = TRUE, !.failedAt = pc[p]],
                               loc[p].invs, loc[p].ords, <<>>))
  /\ UNCHANGED <<clock, store, counters>>

(* ------------------- PATCH /api/billing/invoices/:id ------------------- *)
Within(t, center) == t >= center - Window /\ t <= center + Window

BeginEdit(p, invoiceId, amount) ==
  Begin(p, "pa_invoice", [NoLoc EXCEPT !.op = "editInvoiceAmount",
                                      !.invoiceId = invoiceId, !.amount = amount])

\* variant: only a zero or non-numeric amount is rejected
InvalidEditAmount_zero(amountValue) == Falsy(amountValue)

\* !amountValue || amountValue <= 0
InvalidEditAmount(amountValue) == Falsy(amountValue) \/ amountValue <= 0

\* validate the amount, select the invoice
paLoadInvoice(p) ==
  /\ pc[p] = "pa_invoice"
  /\ LET l == loc[p]
         amountValue == toNumber(l.amount) IN
       IF InvalidEditAmount(amountValue) THEN Finish(p, "error", l)
       ELSE IF InvoiceById(l.invoiceId) = {} THEN Finish(p, "error", l)
       ELSE LET invoice == CHOOSE i \in invoices : i.id = l.invoiceId
                l2 == [l EXCEPT !.invoice = invoice, !.clientId = invoice.clientId,
                                !.amount = amountValue] IN
              IF toNumber(invoice.amount) # amountValue
              THEN Pass(p, "pa_amount", l2)
              ELSE Pass(p, "pa_payments", l2)
  /\ UNCHANGED <<clock, store, counters>>

paUpdateAmount(p) ==
  /\ pc[p] = "pa_amount"
  /\ invoices' = {IF i.id = loc[p].invoiceId THEN [i EXCEPT !.amount = loc[p].amount]
                  ELSE i : i \in invoices}
  /\ Goto(p, "pa_find", loc[p])
  /\ UNCHANGED <<clock, orders, payments, entries, counters>>

\* the debit entry of the invoice, in two selects: at pa_find the entry with
\* debit = old amount within the window of the invoice's createdAt; when that
\* returns no row, at pa_fallback the first entry of the invoice with debit > 0
paFindEntry(p) ==
  /\ pc[p] \in {"pa_find", "pa_fallback"}
  /\ LET l == loc[p]
         mine == {e \in entries : e.clientId = l.invoice.clientId
                                  /\ e.invoiceId = l.invoice.id}
         exact == {e \in mine : e.debit = toNumber(l.invoice.amount)
                                /\ Within(e.createdAt, l.invoice.createdAt)}
         fallback == {e \in mine : e.debit > 0}
         found == IF pc[p] = "pa_find" THEN Earliest(exact) ELSE Earliest(fallback) IN
       IF found = {}
       THEN IF pc[p] = "pa_find" THEN Goto(p, "pa_fallback", l)
            ELSE Goto(p, "rc_load", [l EXCEPT !.entryId = NoId])
       ELSE \E e \in found : Goto(p, "pa_debit", [l EXCEPT !.entryId = e.id])
  /\ UNCHANGED <<clock, store, counters>>

\* variant: the edit also shifts the matched entry's balance by the difference
paUpdateDebit_shiftBalance(p) ==
  /\ pc[p] = "pa_debit"
  /\ entries' = {IF e.id = loc[p].entryId
                 THEN [e EXCEPT !.debit = loc[p].amount,
                                !.balanceAfter = e.balanceAfter + loc[p].amount - e.debit]
                 ELSE e : e \in entries}
  /\ Goto(p, "rc_load", loc[p])
  /\ UNCHANGED <<clock, orders, invoices, payments, counters>>

\* variant: the matched entry keeps its old debit
paUpdateDebit_skip(p) ==
  /\ pc[p] = "pa_debit"
  /\ Goto(p, "rc_load", loc[p])
  /\ UNCHANGED <<clock, store, counters>>

\* update the matched entry's debit to the new amount
paUpdateDebit(p) ==
  /\ pc[p] = "pa_debit"
  /\ entries' = {IF e.id = loc[p].entryId THEN [e EXCEPT !.debit = loc[p].amount]
                 ELSE e : e \in entries}
  /\ Goto(p, "rc_load", loc[p])
  /\ UNCHANGED <<clock, orders, invoices, payments, counters>>

\* variant: an edit always leaves the invoice PENDING
nextStatus_pending(totalPaid, amountValue) == "PENDING"

\* PAID iff the invoice's payments total at least the new amount
nextStatus(totalPaid, amountValue) ==
  IF totalPaid >= amountValue THEN "PAID" ELSE "PENDING"

paLoadPayments(p) ==
  /\ pc[p] = "pa_payments"
  /\ Goto(p, "pa_status",
          [loc[p] EXCEPT !.nextStatus =
             nextStatus(SumAmount(PaymentsOf(loc[p].invoiceId)), loc[p].amount)])
  /\ UNCHANGED <<clock, store, counters>>

paUpdateStatus(p) ==
  /\ pc[p] = "pa_status"
  /\ invoices' = {IF i.id = loc[p].invoiceId
                  THEN [i EXCEPT !.status = loc[p].nextStatus] ELSE i :
                    i \in invoices}
  /\ Finish(p, "ok", loc[p])
  /\ UNCHANGED <<clock, orders, payments, entries, counters>>

(* ------------------ DELETE /api/billing/invoices/:id ------------------- *)
BeginDeleteInvoice(p, invoiceId) ==
  Begin(p, "di_invoice", [NoLoc EXCEPT !.op = "deleteInvoice",
                                      !.invoiceId = invoiceId])

diLoadInvoice(p) ==
  /\ pc[p] = "di_invoice"
  /\ LET l == loc[p] IN
       IF InvoiceById(l.invoiceId) = {} THEN Finish(p, "error", l)
       ELSE LET invoice == CHOOSE i \in invoices : i.id = l.invoiceId IN
              Pass(p, "di_payments",
                   [l EXCEPT !.invoice = invoice, !.clientId = invoice.clientId])
  /\ UNCHANGED <<clock, store, counters>>

diDeletePayments(p) ==
  /\ pc[p] = "di_payments"
  /\ payments' = payments \ PaymentsOf(loc[p].invoiceId)
  /\ Goto(p, "di_entries", loc[p])
  /\ UNCHANGED <<clock, orders, invoices, entries, counters>>

diDeleteEntries(p) ==
  /\ pc[p] = "di_entries"
  /\ LET gone == {e \in entries : e.invoiceId = loc[p].invoiceId} IN
       /\ entries' = entries \ gone
       /\ uuidOrder' = Without(uuidOrder, {e.id : e \in gone})
  /\ Goto(p, "di_delete", loc[p])
  /\ UNCHANGED <<clock, orders, invoices, payments, nextInvoice, nextPayment,
                 nextEntry>>

\* variant: the handler answers after the delete, without replaying the ledger
diDeleteInvoice_noReplay(p) ==
  /\ pc[p] = "di_delete"
  /\ LET gone == {e \in entries : e.invoiceId = loc[p].invoiceId} IN
       /\ invoices' = invoices \ InvoiceById(loc[p].invoiceId)
       /\ payments' = payments \ PaymentsOf(loc[p].invoiceId)
       /\ entries' = entries \ gone
       /\ uuidOrder' = Without(uuidOrder, {e.id : e \in gone})
  /\ Finish(p, "ok", loc[p])
  /\ UNCHANGED <<clock, orders, nextInvoice, nextPayment, nextEntry>>

\* delete the invoice; its payments and entries go with it (on delete cascade)
diDeleteInvoice(p) ==
  /\ pc[p] = "di_delete"
  /\ LET gone == {e \in entries : e.invoiceId = loc[p].invoiceId} IN
       /\ invoices' = invoices \ InvoiceById(loc[p].invoiceId)
       /\ payments' = payments \ PaymentsOf(loc[p].invoiceId)
       /\ entries' = entries \ gone
       /\ uuidOrder' = Without(uuidOrder, {e.id : e \in gone})
  /\ Goto(p, "rc_load", loc[p])
  /\ UNCHANGED <<clock, orders, nextInvoice, nextPayment, nextEntry>>

(* ------------------ DELETE /api/billing/payments/:id ------------------- *)
BeginDeletePayment(p, paymentId) ==
  Begin(p, "dp_payment", [NoLoc EXCEPT !.op = "deletePayment",
                                      !.paymentId = paymentId])

dpLoadPayment(p) ==
  /\ pc[p] = "dp_payment"
  /\ LET l == loc[p]
         found == {q \in payments : q.id = l.paymentId} IN
       IF found = {} THEN Finish(p, "error", l)
       ELSE Goto(p, "dp_invoice", [l EXCEPT !.payment = CHOOSE q \in found : TRUE])
  /\ UNCHANGED <<clock, store, counters>>

dpLoadInvoice(p) ==
  /\ pc[p] = "dp_invoice"
  /\ LET l == loc[p] IN
       IF InvoiceById(l.payment.invoiceId) = {} THEN Finish(p, "error", l)
       ELSE LET invoice == CHOOSE i \in invoices : i.id = l.payment.invoiceId IN
              Pass(p, "dp_find",
                   [l EXCEPT !.invoice = invoice, !.clientId = invoice.clientId,
                             !.invoiceId = invoice.id])
  /\ UNCHANGED <<clock, store, counters>>

\* the credit entry of the payment: same client and invoice, credit = the
\* payment's amount, createdAt within the window of the payment's createdAt
dpFindEntry(p) ==
  /\ pc[p] = "dp_find"
  /\ LET l == loc[p]
         found == Earliest({e \in entries :
                              /\ e.clientId = l.invoice.clientId
                              /\ e.invoiceId = l.invoice.id
                              /\ e.credit = toNumber(l.payment.amount)
                              /\ Within(e.createdAt, l.payment.createdAt)}) IN
       IF found = {} THEN Goto(p, "dp_delete", [l EXCEPT !.entryId = NoId])
       ELSE \E e \in found : Goto(p, "dp_entry", [l EXCEPT !.entryId = e.id])
  /\ UNCHANGED <<clock, store, counters>>

dpDeleteEntry(p) ==
  /\ pc[p] = "dp_entry"
  /\ entries' = {e \in entries : e.id # loc[p].entryId}
  /\ uuidOrder' = Without(uuidOrder, {loc[p].entryId})
  /\ Goto(p, "dp_delete", loc[p])
  /\ UNCHANGED <<clock, orders, invoices, payments, nextInvoice, nextPayment,
                 nextEntry>>

dpDeletePayment(p) ==
  /\ pc[p] = "dp_delete"
  /\ payments' = {q \in payments : q.id # loc[p].paymentId}
  /\ Goto(p, "rc_load", loc[p])
  /\ UNCHANGED <<clock, orders, invoices, entries, counters>>

\* the payments left on the invoice; PENDING when they total less than its amount
dpLoadRemaining(p) ==
  /\ pc[p] = "dp_remaining"
  /\ LET l == loc[p]
         totalPaid == SumAmount(PaymentsOf(l.invoice.id)) IN
       IF totalPaid < toNumber(l.invoice.amount)
       THEN Goto(p, "dp_status", l)
       ELSE Finish(p, "ok", l)
  /\ UNCHANGED <<clock, store, counters>>

dpUpdateStatus(p) ==
  /\ pc[p] = "dp_status"
  /\ invoices' = {IF i.id = loc[p].invoice.id THEN [i EXCEPT !.status = "PENDING"]
                  ELSE i : i \in invoices}
  /\ Finish(p, "ok", loc[p])
  /\ UNCHANGED <<clock, orders, payments, entries, counters>>


(* --------------------------- specifications ---------------------------- *)
Step(p) ==
  \/ getLatestBalance(p)
  \/ createAccountEntry(p)
  \/ ciLoadOrder(p)
  \/ ciLookupExisting(p)
  \/ ciInsertInvoice(p)
  \/ ciBackfillPrice(p)
  \/ rpValidate(p)
  \/ rpLoadInvoices(p)
  \/ rpLoadPayments(p)
  \/ rpAdvance(p)
  \/ rpLedgerCall(p)
  \/ rpInsertPayment(p)
  \/ rpMarkPaid(p)
  \/ rpAnyInvoice(p)
  \/ rcLoad(p)
  \/ rcUpdate(p)
  \/ paLoadInvoice(p)
  \/ paUpdateAmount(p)
  \/ paFindEntry(p)
  \/ paUpdateDebit(p)
  \/ paLoadPayments(p)
  \/ paUpdateStatus(p)
  \/ diLoadInvoice(p)
  \/ diDeletePayments(p)
  \/ diDeleteEntries(p)
  \/ diDeleteInvoice(p)
  \/ dpLoadPayment(p)
  \/ dpLoadInvoice(p)
  \/ dpFindEntry(p)
  \/ dpDeleteEntry(p)
  \/ dpDeletePayment(p)
  \/ dpLoadRemaining(p)
  \/ dpUpdateStatus(p)
  \/ Return(p)

Quiet == \A p \in Procs : pc[p] = "idle"

\* handlers run to completion one at a time
Next ==
  \/ Tick
  \/ Step(1)
  \/ Quiet /\ \E o \in OrderIds : BeginCreateInvoice(1, o)
  \/ Quiet /\ \E in \in PaymentInputs : BeginRecordPayment(1, in[1], in[2], in[3])
  \/ Quiet /\ \E i \in InvoiceIds, a \in EditAmounts : BeginEdit(1, i, a)
  \/ Quiet /\ \E i \in InvoiceIds : BeginDeleteInvoice(1, i)
  \/ Quiet /\ \E q \in PaymentIds : BeginDeletePayment(1, q)

Spec == Init /\ [][Next]_vars

\* the billing handlers together with the handlers that change work orders,
\* one at a time: status requests, deliveries, webhook deliveries, edits and
\* new orders
MaxNewOrders == 1
StatusOrders == {"o1", "o4", "o9"}
WebhookOrders == {"o2", "o4", "o9"}
EditedOrders == {"o1", "o3", "o9"}
WorkOrderStatus == {"CREATED", "IN_PROGRESS", "DONE", "DELIVERED"}

NextOrders ==
  \/ Next
  \/ StepOrders(1)
  \/ Quiet /\ \E o \in StatusOrders \cup NewOrders, st \in WorkOrderStatus :
                BeginUpdateStatus(1, o, st)
  \/ Quiet /\ \E o \in StatusOrders : BeginDeliver(1, o)
  \/ Quiet /\ \E o \in WebhookOrders : BeginWebhookDelivery(1, o)
  \/ Quiet /\ \E o \in EditedOrders, patch \in Patches :
                BeginUpdateWorkOrder(1, o, patch)
  \/ Quiet /\ Cardinality(NewOrders) < MaxNewOrders
           /\ \E t \in {NullType, "REPARACION"} : BeginCreateWorkOrder(1, "c1", t)
  \/ Quiet /\ \E o \in NewOrders : BeginCreateInvoice(1, o)

SpecOrders == Init /\ [][NextOrders]_vars

\* recordPayment on amounts with decimals. The store is the one createInvoice
\* leaves for an order of client c1 with the stamped price 0.80 and no work
\* type: its invoice of 0.80, PENDING, and the debit entry. The columns hold
\* cents. The calls pay 0.10, 0.70 or 0.80, or pass the amount 0, for a client
\* with or without an invoice, one call at a time.
DecimalPayAmounts == {0, 10, 70, 80}

InitDecimal ==
  /\ clock = 0
  /\ decimal = TRUE
  /\ orders = [o \in {"d1"} |-> [dentistId |-> "c1", status |-> "DONE",
                                 workType |-> NullType, price |-> 80]]
  /\ invoices = {[id |-> 1, clientId |-> "c1", workOrderId |-> "d1", amount |-> 80,
                  status |-> "PENDING", createdAt |-> 0]}
  /\ payments = {}
  /\ entries = {[id |-> 1, clientId |-> "c1", invoiceId |-> 1, debit |-> 80,
                 credit |-> 0, balanceAfter |-> 80, createdAt |-> 0]}
  /\ nextInvoice = 1
  /\ nextPayment = 0
  /\ nextEntry = 1
  /\ uuidOrder = <<1>>
  /\ nOps = 0
  /\ pc = [p \in Procs |-> "idle"]
  /\ loc = [p \in Procs |-> NoLoc]
  /\ pre = [p \in Procs |-> NoPre]
  /\ res = [p \in Procs |-> "none"]
  /\ lastPayment = NoPayment

NextDecimal ==
  \/ Tick
  \/ Quiet /\ \E c \in Clients, a \in DecimalPayAmounts :
                BeginRecordPayment(1, c, FromCents(a), NoDate)
  \/ rpValidate(1)
  \/ rpLoadInvoices(1)
  \/ rpLoadPayments(1)
  \/ rpAdvance(1)
  \/ rpInsertPayment(1)
  \/ rpMarkPaid(1)
  \/ rpAnyInvoice(1)
  \/ rpLedgerCall(1)
  \/ getLatestBalance(1)
  \/ createAccountEntry(1)
  \/ Return(1)

SpecDecimal == InitDecimal /\ [][NextDecimal]_vars

\* two callers at once: createInvoice and markOrderAsDelivered interleave at
\* every await, as two requests served by the same event loop do
StepRace(p) ==
  \/ updateWorkOrderStatus(p)
  \/ StepStatus(p)
  \/ markOrderAsDelivered(p)
  \/ ciLoadOrder(p)
  \/ ciLookupExisting(p)
  \/ ciInsertInvoice(p)
  \/ ciBackfillPrice(p)
  \/ getLatestBalance(p)
  \/ createAccountEntry(p)
  \/ Return(p)

\* the calls that race: at most MaxRaceOps have passed their checks when a new
\* one starts, and they are for two orders of client c1 (DONE and DELIVERED,
\* with stamped prices) and a DELIVERED order of client c2 without one
MaxRaceOps == 2
RaceOrders == {"o1", "o2", "o3"}

NextRace ==
  \/ Tick
  \/ \E p \in Procs : StepRace(p)
  \/ nOps < MaxRaceOps /\ \E p \in Procs, o \in RaceOrders : BeginCreateInvoice(p, o)
  \/ nOps < MaxRaceOps /\ \E p \in Procs, o \in RaceOrders : BeginDeliver(p, o)

SpecRace == Init /\ [][NextRace]_vars

\* recomputeBalances on its own, from any small ledger of one client: the
\* stored balances are arbitrary, as are the creation times and the uuid order
MaxRows == 2
RowAmounts == {<<100, 0>>, <<0, 50>>, <<0, 120>>, <<70, 20>>}
RowBalances == {0 - 20, 0, 100}
RowTimes == {0, 3000}
Ledgers ==
  UNION {[1..n -> [amounts : RowAmounts, balanceAfter : RowBalances,
                   createdAt : RowTimes]] : n \in 0..MaxRows}

InitRecompute ==
  /\ clock = 0
  /\ decimal = FALSE
  /\ orders = InitOrders
  /\ invoices = {[id |-> 1, clientId |-> "c1", workOrderId |-> "o1", amount |-> 100,
                  status |-> "PENDING", createdAt |-> 0]}
  /\ payments = {}
  /\ \E rows \in Ledgers :
       /\ entries = {[id |-> k, clientId |-> "c1", invoiceId |-> 1,
                      debit |-> rows[k].amounts[1], credit |-> rows[k].amounts[2],
                      balanceAfter |-> rows[k].balanceAfter,
                      createdAt |-> rows[k].createdAt] : k \in 1..Len(rows)}
       /\ nextEntry = Len(rows)
       /\ uuidOrder \in Perms(1..Len(rows))
  /\ nextInvoice = 1
  /\ nextPayment = 0
  /\ nOps = 0
  /\ pc = [p \in Procs |-> "idle"]
  /\ loc = [p \in Procs |-> NoLoc]
  /\ pre = [p \in Procs |-> NoPre]
  /\ res = [p \in Procs |-> "none"]
  /\ lastPayment = NoPayment

\* the call recomputeBalances(clientId)
BeginRecompute(p, clientId) ==
  /\ pc[p] = "idle"
  /\ nOps < MaxOps
  /\ pc' = [pc EXCEPT ![p] = "rc_load"]
  /\ loc' = [loc EXCEPT ![p] = [NoLoc EXCEPT !.op = "recomputeBalances",
                                             !.clientId = clientId]]
  /\ pre' = [pre EXCEPT ![p] = Snapshot]
  /\ res' = [res EXCEPT ![p] = "none"]
  /\ nOps' = nOps + 1
  /\ UNCHANGED <<clock, store, counters, lastPayment, decimal>>

NextRecompute ==
  \/ BeginRecompute(1, "c1")
  \/ rcLoad(1)
  \/ rcUpdate(1)
  \/ Return(1)

SpecRecompute == InitRecompute /\ [][NextRecompute]_vars

\* a store write answers with an error: PostgREST reports it in the result
\* object and the row is left as it was. One write fails per handler run.
\* the writes whose result the code inspects: `if (error) throw`, which the
\* route answers with an error status
CheckedWrites ==
  {"ci_insert", "ae_insert", "rp_insert", "rc_update", "pa_amount", "pa_debit",
   "pa_status", "di_payments", "di_entries", "di_delete", "dp_entry",
   "dp_delete", "dp_status", "md_update"}

WriteFails(p) ==
  /\ pc[p] \in CheckedWrites
  /\ ~loc[p].failed
  /\ Finish(p, "error", [loc[p] EXCEPT !.failed = TRUE])
  /\ UNCHANGED <<clock, store, counters>>

\* the work_orders price update fails: its result is not read, the handler
\* goes on to the ledger append
ciBackfillPriceFails(p) ==
  /\ pc[p] = "ci_backfill"
  /\ ~loc[p].failed
  /\ LET l == [loc[p] EXCEPT !.failed = TRUE] IN
       Goto(p, "ae_latest",
            CallCreateAccountEntry(l, l.invoice.id, l.finalAmount, 0,
                                   l.invoice.createdAt))
  /\ UNCHANGED <<clock, store, counters>>

\* the invoices status update to PAID fails: its result is not read, the loop
\* goes on with the payment counted
rpMarkPaidFails(p) ==
  /\ pc[p] = "rp_status"
  /\ ~loc[p].failed
  /\ LET l == [loc[p] EXCEPT !.failed = TRUE] IN
       Goto(p, "rp_next",
            [l EXCEPT !.remaining = remainingLeft(l.remaining, l.applied),
                      !.created = Append(l.created, l.payment),
                      !.idx = l.idx + 1])
  /\ UNCHANGED <<clock, store, counters>>

\* the delivery of a DONE order is among the handlers whose writes may fail
NextFail ==
  \/ Next
  \/ Quiet /\ BeginDeliver(1, "o1")
  \/ updateWorkOrderStatus(1)
  \/ StepStatus(1)
  \/ markOrderAsDelivered(1)
  \/ WriteFails(1)
  \/ ciBackfillPriceFails(1)
  \/ rpMarkPaidFails(1)

SpecFail == Init /\ [][NextFail]_vars

\* createInvoice, called directly or through markOrderAsDelivered, whose
\* ledger insert fails after the invoice row went in; the caller then calls
\* createInvoice or markOrderAsDelivered again for the same order for as long
\* as the call ends in an error, and stops at the first call that returns
RetryOrders == {"o1", "o3", "o5"}

\* the order has an invoice without a debit row
Orphaned(o) ==
  \E i \in invoices :
    /\ i.workOrderId = o
    /\ ~\E e \in entries : e.invoiceId = i.id /\ e.debit > 0

\* the insert into account_entries answers with an error, once
AppendFails(p) ==
  /\ pc[p] = "ae_insert"
  /\ nOps = 1
  /\ WriteFails(p)

StepRetry(p) ==
  \/ ciLoadOrder(p)
  \/ ciLookupExisting(p)
  \/ ciInsertInvoice(p)
  \/ ciBackfillPrice(p)
  \/ getLatestBalance(p)
  \/ createAccountEntry(p)
  \/ updateWorkOrderStatus(p)
  \/ StepStatus(p)
  \/ markOrderAsDelivered(p)
  \/ AppendFails(p)

\* the caller receives an error
ReturnError(p) == res[p] = "error" /\ Return(p)

NextRetry ==
  \/ Tick
  \/ StepRetry(1)
  \/ ReturnError(1)
  \/ \E o \in RetryOrders : nOps = 0 /\ BeginCreateInvoice(1, o)
  \/ \E o \in RetryOrders : nOps = 0 /\ BeginDeliver(1, o)
  \/ \E o \in RetryOrders : Orphaned(o) /\ BeginCreateInvoice(1, o)
  \/ \E o \in RetryOrders : Orphaned(o) /\ BeginDeliver(1, o)

\* every await of a handler resolves, and the caller does call again
SpecRetry == Init /\ [][NextRetry]_vars /\ WF_vars(StepRetry(1) \/ ReturnError(1))
             /\ WF_vars(\E o \in RetryOrders : Orphaned(o) /\ BeginCreateInvoice(1, o))
             /\ WF_vars(\E o \in RetryOrders : Orphaned(o) /\ BeginDeliver(1, o))

\* getStatementByClient on any small store the schema allows: client c2 has one
\* invoice (on a typed order, an untyped one, or with its work order deleted),
\* up to MaxStatementRows ledger rows of any kind on it and up to
\* MaxStatementPayments payments; client c1 has an invoice with its debit row
\* and a payment of 50
MaxStatementRows == 2
MaxStatementPayments == 2
StatementAmounts == {<<100, 0>>, <<0, 50>>, <<0, 0>>}
StatementTimes == {0, 3000, Day + 3000}
StatementLedgers ==
  UNION {[1..n -> [amounts : StatementAmounts, createdAt : StatementTimes]] :
           n \in 0..MaxStatementRows}
StatementPayments ==
  UNION {[1..n -> [amount : {50, 120}, createdAt : {0, 3000, Window}]] :
           n \in 0..MaxStatementPayments}
\* the date bounds a caller may pass
StatementFrom == {NoDate, 3000}
StatementTo == {NoDate, 0}

InitStatement ==
  /\ clock = 0
  /\ decimal = FALSE
  /\ orders = InitOrders
  /\ \E w \in {"o3", "o6", NullOrder} :
       invoices = {[id |-> 1, clientId |-> "c2", workOrderId |-> w, amount |-> 100,
                    status |-> "PENDING", createdAt |-> 0],
                   [id |-> 2, clientId |-> "c1", workOrderId |-> "o1", amount |-> 100,
                    status |-> "PENDING", createdAt |-> 0]}
  /\ \E pays \in StatementPayments :
       /\ payments = {[id |-> k, invoiceId |-> 1, amount |-> pays[k].amount,
                       createdAt |-> pays[k].createdAt,
                       providerRef |-> IF k = 1 THEN "nota" ELSE ""] :
                        k \in 1..Len(pays)}
                     \cup {[id |-> Len(pays) + 1, invoiceId |-> 2, amount |-> 50,
                            createdAt |-> 0, providerRef |-> ""]}
       /\ nextPayment = Len(pays) + 1
  /\ \E rows \in StatementLedgers :
       /\ entries = {[id |-> k, clientId |-> "c2", invoiceId |-> 1,
                      debit |-> rows[k].amounts[1], credit |-> rows[k].amounts[2],
                      balanceAfter |-> 10 * k,
                      createdAt |-> rows[k].createdAt] : k \in 1..Len(rows)}
                    \cup {[id |-> Len(rows) + 1, clientId |-> "c1", invoiceId |-> 2,
                           debit |-> 100, credit |-> 0, balanceAfter |-> 100,
                           createdAt |-> 0]}
       /\ nextEntry = Len(rows) + 1
       /\ uuidOrder = [k \in 1..(Len(rows) + 1) |-> k]
  /\ nextInvoice = 2
  /\ nOps = 0
  /\ pc = [p \in Procs |-> "idle"]
  /\ loc = [p \in Procs |-> NoLoc]
  /\ pre = [p \in Procs |-> NoPre]
  /\ res = [p \in Procs |-> "none"]
  /\ lastPayment = NoPayment

NextStatement ==
  \/ \E c \in {"c2", "cX"}, from \in StatementFrom, to \in StatementTo :
       BeginStatement(1, c, from, to)
  \/ gsClient(1)
  \/ gsLoadEntries(1)
  \/ gsLoadInvoices(1)
  \/ gsLoadOrders(1)
  \/ gsLoadPayments(1)
  \/ gsReadFails(1)
  \/ gsLoadPaymentsFails(1)
  \/ Return(1)

SpecStatement == InitStatement /\ [][NextStatement]_vars

\* the handlers run one at a time from the empty store, and between two of
\* them the statement of a client is requested without a date range (GET
\* /api/billing?clientId=...): the ledger a statement reads is one the
\* handlers wrote. A statement is a read and is not counted in nOps.
RequestStatement(p, clientId) ==
  /\ pc[p] = "idle"
  /\ pc' = [pc EXCEPT ![p] = "gs_client"]
  /\ loc' = [loc EXCEPT ![p] = [NoLoc EXCEPT !.op = "getStatement",
                                             !.clientId = clientId]]
  /\ pre' = [pre EXCEPT ![p] = Snapshot]
  /\ res' = [res EXCEPT ![p] = "none"]
  /\ UNCHANGED <<clock, store, counters, nOps, lastPayment, decimal>>

NextLedgerStatement ==
  \/ Next
  \/ Quiet /\ \E c \in Clients : RequestStatement(1, c)
  \/ gsClient(1)
  \/ gsLoadEntries(1)
  \/ gsLoadInvoices(1)
  \/ gsLoadOrders(1)
  \/ gsLoadPayments(1)

SpecLedgerStatement == Init /\ [][NextLedgerStatement]_vars

\* two requests served at once, one per process, on a store where both clients
\* have been billed: invoice 1 of c1 (order o1, 100) and invoice 2 of c2 (order
\* o5, 80), each with its debit row, and in one of the two initial states a
\* payment of 50 on invoice 1 with its credit row. The rows were written before
\* the clock of the model starts. The two handlers interleave at every await.
ConcurrentFirst ==
  {<<"editInvoiceAmount", "c1">>, <<"deleteInvoice", "c1">>,
   <<"deletePayment", "c1">>, <<"recordPayment", "c1">>}
ConcurrentSecond ==
  {<<"createInvoice", "o2">>, <<"recordPayment", "c1">>,
   <<"createInvoice", "o3">>, <<"recordPayment", "c2">>}

InitBilled ==
  /\ clock = 0
  /\ decimal = FALSE
  /\ orders = InitOrders
  /\ invoices = {[id |-> 1, clientId |-> "c1", workOrderId |-> "o1", amount |-> 100,
                  status |-> "PENDING", createdAt |-> 0 - 6000],
                 [id |-> 2, clientId |-> "c2", workOrderId |-> "o5", amount |-> 80,
                  status |-> "PENDING", createdAt |-> 0 - 6000]}
  /\ \E paid \in BOOLEAN :
       /\ payments = IF paid THEN {[id |-> 1, invoiceId |-> 1, amount |-> 50,
                                    createdAt |-> 0 - 3000]}
                     ELSE {}
       /\ entries =
            {[id |-> 1, clientId |-> "c1", invoiceId |-> 1, debit |-> 100,
              credit |-> 0, balanceAfter |-> 100, createdAt |-> 0 - 6000],
             [id |-> 2, clientId |-> "c2", invoiceId |-> 2, debit |-> 80,
              credit |-> 0, balanceAfter |-> 80, createdAt |-> 0 - 6000]}
            \cup (IF paid THEN {[id |-> 3, clientId |-> "c1", invoiceId |-> 1,
                                 debit |-> 0, credit |-> 50, balanceAfter |-> 50,
                                 createdAt |-> 0 - 3000]}
                  ELSE {})
       /\ nextPayment = IF paid THEN 1 ELSE 0
       /\ nextEntry = IF paid THEN 3 ELSE 2
       /\ uuidOrder = IF paid THEN <<1, 2, 3>> ELSE <<1, 2>>
  /\ nextInvoice = 2
  /\ nOps = 1
  /\ pc = [p \in Procs |-> "idle"]
  /\ loc = [p \in Procs |-> NoLoc]
  /\ pre = [p \in Procs |-> NoPre]
  /\ res = [p \in Procs |-> "none"]
  /\ lastPayment = NoPayment

\* the steps of the handlers, without the return to the caller: each process
\* serves one request
StepConcurrent(p) ==
  \/ getLatestBalance(p)
  \/ createAccountEntry(p)
  \/ ciLoadOrder(p)
  \/ ciLookupExisting(p)
  \/ ciInsertInvoice(p)
  \/ ciBackfillPrice(p)
  \/ rpValidate(p)
  \/ rpLoadInvoices(p)
  \/ rpLoadPayments(p)
  \/ rpAdvance(p)
  \/ rpLedgerCall(p)
  \/ rpInsertPayment(p)
  \/ rpMarkPaid(p)
  \/ rpAnyInvoice(p)
  \/ rcLoad(p)
  \/ rcUpdate(p)
  \/ paLoadInvoice(p)
  \/ paUpdateAmount(p)
  \/ paFindEntry(p)
  \/ paUpdateDebit(p)
  \/ paLoadPayments(p)
  \/ paUpdateStatus(p)
  \/ diLoadInvoice(p)
  \/ diDeletePayments(p)
  \/ diDeleteEntries(p)
  \/ diDeleteInvoice(p)
  \/ dpLoadPayment(p)
  \/ dpLoadInvoice(p)
  \/ dpFindEntry(p)
  \/ dpDeleteEntry(p)
  \/ dpDeletePayment(p)
  \/ dpLoadRemaining(p)
  \/ dpUpdateStatus(p)

\* a request names invoice 1 or payment 1 when that row exists as the request
\* is made, and an id that names no row otherwise
BeginConcurrent(p, in) ==
  CASE in[1] = "editInvoiceAmount" -> BeginEdit(p, KnownId(invoices, 1), 50)
    [] in[1] = "deleteInvoice" -> BeginDeleteInvoice(p, KnownId(invoices, 1))
    [] in[1] = "deletePayment" -> BeginDeletePayment(p, KnownId(payments, 1))
    [] in[1] = "recordPayment" -> BeginRecordPayment(p, in[2], 50, NoDate)
    [] in[1] = "createInvoice" -> BeginCreateInvoice(p, in[2])

NextConcurrent ==
  \/ Tick
  \/ \E p \in Procs : StepConcurrent(p)
  \/ \E in \in ConcurrentFirst : BeginConcurrent(1, in)
  \/ \E in \in ConcurrentSecond : BeginConcurrent(2, in)

SpecConcurrent == InitBilled /\ [][NextConcurrent]_vars

(* --------------------- getBillableOrdersForExport ---------------------- *)
\* the decimal digits, and a non-negative integer written with them
DigitChars == <<"0", "1", "2", "3", "4", "5", "6", "7", "8", "9">>

RECURSIVE Decimal(_)
Decimal(n) ==
  IF n < 10 THEN <<DigitChars[n + 1]>>
  ELSE Decimal(n \div 10) \o <<DigitChars[(n % 10) + 1]>>

\* amount.toFixed(2), on a whole amount
toFixed2(n) == Decimal(n) \o <<".", "0", "0">>

\* priceForOrder: the stamped price when it is > 0, else the table price
priceForOrder(order) ==
  IF order.price # NullPrice /\ toNumber(order.price) > 0
  THEN toNumber(order.price)
  ELSE IF order.workType = NullType THEN 0
  ELSE IF order.workType \in DOMAIN WORK_TYPE_PRICES
       THEN WORK_TYPE_PRICES[order.workType]
       ELSE 0

BeginExport(p) == Begin(p, "ex_orders", [NoLoc EXCEPT !.op = "export"])

\* select the DONE and DELIVERED work orders
exLoadOrders(p) ==
  /\ pc[p] = "ex_orders"
  /\ LET ids == {o \in DOMAIN orders : orders[o].status \in {"DONE", "DELIVERED"}} IN
       Goto(p, "ex_invoices", [loc[p] EXCEPT !.ords = [o \in ids |-> orders[o]]])
  /\ UNCHANGED <<clock, store, counters>>

\* select the workOrderId of the invoices that have one; list the orders that
\* are not among them, in the order the first select returned them (by
\* updatedAt, which is any order here)
exLoadInvoices(p) ==
  /\ pc[p] = "ex_invoices"
  /\ LET l == loc[p]
         invoicedIds == {i.workOrderId : i \in invoices} \ {NullOrder}
         listed == DOMAIN l.ords \ invoicedIds IN
       \E q \in Perms(listed) :
         Finish(p, "ok",
                [l EXCEPT !.rows = [k \in 1..Len(q) |->
                                      [id |-> q[k],
                                       amount |-> toFixed2(priceForOrder(l.ords[q[k]])),
                                       status |-> l.ords[q[k]].status]]])
  /\ UNCHANGED <<clock, store, counters>>

\* one of the two selects answers with an error: the export throws
exReadFails(p) ==
  /\ pc[p] \in {"ex_orders", "ex_invoices"}
  /\ Finish(p, "error", [loc[p] EXCEPT !.failed = TRUE, !.failedAt = pc[p]])
  /\ UNCHANGED <<clock, store, counters>>

\* the export, then createInvoice for one order, on work orders with every
\* combination of work type and stamped price: order o1 takes them all, o5 has
\* both a table price and a stamped price, o4 is not finished, and o2 has its
\* invoice already in one of the two stores
ExportTypes == {NullType, "REPARACION", "MODELO_IMPRESO"}
ExportPrices == {NullPrice, 0, 80, 400}
ExportStatus == {"IN_PROGRESS", "DONE", "DELIVERED"}

InitExport ==
  /\ clock = 0
  /\ decimal = FALSE
  /\ \E t \in ExportTypes, x \in ExportPrices, st \in ExportStatus :
       orders = [o \in {"o1", "o2", "o4", "o5"} |->
                   IF o = "o1" THEN [dentistId |-> "c1", status |-> st,
                                     workType |-> t, price |-> x]
                   ELSE InitOrders[o]]
  /\ \E billed \in BOOLEAN :
       /\ invoices = IF billed
                     THEN {[id |-> 1, clientId |-> "c1", workOrderId |-> "o2",
                            amount |-> 50, status |-> "PENDING",
                            createdAt |-> 0 - 6000]}
                     ELSE {}
       /\ entries = IF billed
                    THEN {[id |-> 1, clientId |-> "c1", invoiceId |-> 1,
                           debit |-> 50, credit |-> 0, balanceAfter |-> 50,
                           createdAt |-> 0 - 6000]}
                    ELSE {}
       /\ nextInvoice = IF billed THEN 1 ELSE 0
       /\ nextEntry = IF billed THEN 1 ELSE 0
       /\ uuidOrder = IF billed THEN <<1>> ELSE <<>>
  /\ payments = {}
  /\ nextPayment = 0
  /\ nOps = 0
  /\ pc = [p \in Procs |-> "idle"]
  /\ loc = [p \in Procs |-> NoLoc]
  /\ pre = [p \in Procs |-> NoPre]
  /\ res = [p \in Procs |-> "none"]
  /\ lastPayment = NoPayment

StepInvoice(p) ==
  \/ ciLoadOrder(p)
  \/ ciLookupExisting(p)
  \/ ciInsertInvoice(p)
  \/ ciBackfillPrice(p)
  \/ getLatestBalance(p)
  \/ createAccountEntry(p)

NextExport ==
  \/ BeginExport(1)
  \/ exLoadOrders(1)
  \/ exLoadInvoices(1)
  \/ exReadFails(1)
  \/ pc[1] = "done" /\ \E o \in DOMAIN orders : BeginCreateInvoice(2, o)
  \/ StepInvoice(2)

SpecExport == InitExport /\ [][NextExport]_vars

(* ------------------------------- claims -------------------------------- *)
\* every handler has run to completion
Settled == \A p \in Procs : pc[p] \in {"idle", "done"}
\* process p has just completed handler op
Done(p, op) == pc[p] = "done" /\ loc[p].op = op
Ok(p, op) == Done(p, op) /\ res[p] = "ok"

\* the running-balance chain of a set of ledger rows, by (createdAt, id)
ChainOK(S, order) ==
  LET q == OrderByCreatedAtId(S, order) IN
    \A k \in 1..Len(q) :
      q[k].balanceAfter =
        (IF k = 1 THEN 0 ELSE q[k - 1].balanceAfter) + q[k].debit - q[k].credit

Min(a, b) == IF a <= b THEN a ELSE b
Max(a, b) == IF a >= b THEN a ELSE b

\* C1: after any sequence of handlers, each run to completion, the ledger of
\* every client satisfies the running-balance chain in (createdAt, id) order.
C1_RunningBalanceChain ==
  Settled => \A c \in Clients : ChainOK(EntriesOf(c), uuidOrder)

\* C2: after any sequence of completed handlers, an invoice is PAID exactly
\* when its payment rows total at least its amount. It holds on whole amounts
\* (Spec); on amounts with decimals (SpecDecimal) payments of 0.10 and 0.70
\* leave an invoice of 0.80 PENDING.
C2_StatusMatchesPayments ==
  Settled =>
    \A i \in invoices : (i.status = "PAID") <=> (SumAmount(PaymentsOf(i.id)) >= i.amount)

\* what is left of the input amount when the k-th invoice of ord is reached
RECURSIVE RemainingAt(_, _, _, _)
RemainingAt(ord, got, amount, k) ==
  IF k = 1 THEN amount
  ELSE RemainingAt(ord, got, amount, k - 1) - got[ord[k - 1].id]

\* C3: recordPayment gives the client's PENDING invoices, in ascending creation
\* time, min(outstanding, remaining) each: one row per invoice reached, none on
\* an invoice while an earlier one is not fully covered; an invoice becomes PAID
\* when its row covers its outstanding. With A (100) older than B (50), both
\* unpaid, an amount of 120 gives 100 on A, 20 on B, A PAID, B PENDING owing 30.
C3_AllocationOrder ==
  Ok(1, "recordPayment") =>
    LET l == loc[1]
        P == {i \in pre[1].invoices : i.clientId = l.clientId /\ i.status = "PENDING"}
        new == payments \ pre[1].payments
        out == [i \in P |-> i.amount - SumAmount({q \in pre[1].payments :
                                                    q.invoiceId = i.id})]
        got == [id \in {i.id : i \in P} |-> SumAmount({q \in new : q.invoiceId = id})]
        status == [id \in {i.id : i \in P} |->
                     (CHOOSE i \in invoices : i.id = id).status] IN
      /\ pre[1].payments \subseteq payments
      /\ \A q \in new : q.invoiceId \in {i.id : i \in P} /\ q.amount > 0
      /\ \A q1, q2 \in new : q1.invoiceId = q2.invoiceId => q1 = q2
      /\ \E ord \in OrderByCreatedAt(P) :
           \A k \in 1..Len(ord) :
             got[ord[k].id] =
               Min(Max(out[ord[k]], 0), Max(RemainingAt(ord, got, l.amount, k), 0))
      /\ \A i, j \in P :
           (got[i.id] > 0 /\ j.createdAt < i.createdAt /\ out[j] > 0)
             => got[j.id] = out[j]
      /\ \A i \in P : status[i.id] = IF got[i.id] > 0 /\ got[i.id] >= out[i]
                                     THEN "PAID" ELSE "PENDING"
      /\ \A A, B \in P :
           (/\ P = {A, B} /\ A.createdAt < B.createdAt /\ l.amount = 120
            /\ A.amount = 100 /\ out[A] = 100 /\ B.amount = 50 /\ out[B] = 50)
             => /\ {<<q.invoiceId, q.amount>> : q \in new} = {<<A.id, 100>>, <<B.id, 20>>}
                /\ status[A.id] = "PAID" /\ status[B.id] = "PENDING"
                /\ B.amount - SumAmount(PaymentsOf(B.id)) = 30

\* C3 witness: the payment of 120 against A (100, older) and B (50) has run.
C3_Witness ==
  /\ Ok(1, "recordPayment")
  /\ loc[1].amount = 120
  /\ \E A, B \in pre[1].invoices :
       /\ A.clientId = loc[1].clientId /\ B.clientId = loc[1].clientId
       /\ A.amount = 100 /\ B.amount = 50 /\ A.createdAt < B.createdAt
       /\ A.status = "PENDING" /\ B.status = "PENDING"
       /\ pre[1].payments = {}
       /\ Cardinality(payments) = 2

\* C5: recordPayment with an amount <= 0 or not a number, or for an unknown
\* client, ends in an error and has written nothing.
C5_RejectedPaymentWritesNothing ==
  (Done(1, "recordPayment")
     /\ (loc[1].clientId \notin Clients \/ loc[1].amount = NaN \/ loc[1].amount <= 0))
    => /\ res[1] = "error"
       /\ invoices = pre[1].invoices
       /\ payments = pre[1].payments
       /\ entries = pre[1].entries
       /\ orders = pre[1].orders

\* C5 witness: a payment of a non-positive amount was rejected for a client
\* that has a PENDING invoice.
C5_Witness ==
  /\ Done(1, "recordPayment")
  /\ loc[1].amount # NaN /\ loc[1].amount <= 0
  /\ \E i \in invoices : i.clientId = loc[1].clientId /\ i.status = "PENDING"

\* C7: a successful recordPayment appends exactly one ledger entry when the
\* client has an invoice and none otherwise; the entry has debit 0, the full
\* input amount as credit, and the id of the first invoice that received a
\* row, or of the client's most recently created invoice when none did.
C7_OneCreditEntryPerCall ==
  Ok(1, "recordPayment") =>
    LET l == loc[1]
        mine == {i \in invoices : i.clientId = l.clientId}
        newE == {e \in entries : e.id \notin {x.id : x \in pre[1].entries}}
        newP == payments \ pre[1].payments
        paidInv == {i \in mine : \E q \in newP : q.invoiceId = i.id} IN
      /\ pre[1].entries \subseteq entries
      /\ {l.created[k] : k \in 1..Len(l.created)} = newP
      /\ IF mine = {} THEN newE = {}
         ELSE \E e \in newE :
                /\ newE = {e}
                /\ e.clientId = l.clientId
                /\ e.debit = 0
                /\ e.credit = l.amount
                /\ IF newP # {}
                   THEN /\ e.invoiceId = l.created[1].invoiceId
                        /\ \E i \in Earliest(paidInv) : i.id = e.invoiceId
                   ELSE \E i \in Latest(mine) : i.id = e.invoiceId

\* C7 witness: a payment larger than everything outstanding has been recorded.
C7_Witness ==
  /\ Ok(1, "recordPayment")
  /\ payments # pre[1].payments
  /\ loc[1].remaining > 0

C9_DeletePaymentUndoesPayment ==
  (Ok(1, "deletePayment") /\ loc[1].paymentId \in lastPayment.payments) =>
    LET l == loc[1] IN
      /\ \A q \in payments : q.id # l.paymentId
      /\ \A e \in entries : e.id # lastPayment.entryId
      /\ LatestBalances(EntriesOf(lastPayment.client)) \subseteq lastPayment.balanceBefore
      /\ \A i \in invoices :
           (i.id = l.invoice.id /\ SumAmount(PaymentsOf(i.id)) < i.amount)
             => i.status = "PENDING"

\* C10: after a successful edit the invoice has the new amount, its debit
\* entry has the new amount, the client's ledger satisfies the chain, and the
\* invoice is PAID when its payments total at least the new amount, else PENDING.
C10_EditRepairsLedger ==
  Ok(1, "editInvoiceAmount") =>
    LET l == loc[1] IN
      \A i \in invoices :
        i.id = l.invoiceId =>
          /\ i.amount = l.amount
          /\ \E e \in entries : e.invoiceId = i.id /\ e.debit > 0
          /\ \A e \in entries : (e.invoiceId = i.id /\ e.debit > 0) => e.debit = l.amount
          /\ ChainOK(EntriesOf(i.clientId), uuidOrder)
          /\ i.status = IF SumAmount(PaymentsOf(i.id)) >= l.amount
                        THEN "PAID" ELSE "PENDING"
\* C4: recomputeBalances is idempotent: a run that follows another run for the
\* same client, with no write in between, leaves every entry as the first run
\* left it.
C4_RecomputeIdempotent ==
  (Done(1, "recomputeBalances") /\ nOps >= 2) => entries = pre[1].entries

\* C4 witness: a second run has completed on a two-row ledger whose stored
\* balances the first run had to rewrite.
C4_Witness ==
  /\ Done(1, "recomputeBalances")
  /\ nOps = 2
  /\ Cardinality(entries) = 2
  /\ ChainOK(entries, uuidOrder)
  /\ \E e \in entries : e.balanceAfter \notin RowBalances

\* C6: there is at most one invoice per work-order id, also when createInvoice
\* and markOrderAsDelivered calls for the same order interleave.
C6_OneInvoicePerWorkOrder ==
  \A i, j \in invoices : i.workOrderId = j.workOrderId => i = j
\* C11: a successful deleteInvoice leaves no invoice, payment row or ledger
\* entry with that invoice id; the payments go first, then the entries, then
\* the invoice; and the client's remaining entries satisfy the chain.
C11_DeleteInvoiceCascades ==
  loc[1].op = "deleteInvoice" =>
    LET id == loc[1].invoiceId
        hasInvoice == InvoiceById(id) # {}
        hasPayments == PaymentsOf(id) # {}
        hasEntries == \E e \in entries : e.invoiceId = id IN
      /\ pc[1] = "di_payments" => hasInvoice /\ hasEntries
      /\ pc[1] = "di_entries" => hasInvoice /\ hasEntries /\ ~hasPayments
      /\ pc[1] = "di_delete" => hasInvoice /\ ~hasEntries /\ ~hasPayments
      /\ pc[1] \in {"rc_load", "rc_update"} => ~hasInvoice /\ ~hasEntries /\ ~hasPayments
      /\ Ok(1, "deleteInvoice") =>
           /\ ~hasInvoice /\ ~hasEntries /\ ~hasPayments
           /\ ChainOK(EntriesOf(loc[1].clientId), uuidOrder)

\* C11 witness: an invoice was deleted from under a later entry of the same
\* client, whose balance the handler had to rewrite.
C11_Witness ==
  /\ Ok(1, "deleteInvoice")
  /\ \E e \in EntriesOf(loc[1].clientId) :
       \E f \in pre[1].entries : f.id = e.id /\ f.balanceAfter # e.balanceAfter
\* the order of a createInvoice call is one the handler may bill: it exists,
\* is DONE or DELIVERED, has a billed-to party and had no invoice at the call
Billable(p) ==
  /\ loc[p].orderId \in DOMAIN pre[p].orders
  /\ pre[p].orders[loc[p].orderId].status \in {"DONE", "DELIVERED"}
  /\ pre[p].orders[loc[p].orderId].dentistId \in Clients
  /\ \A i \in pre[p].invoices : i.workOrderId # loc[p].orderId

\* the price the contract bills for an order: table price if > 0, else stamped
ContractPrice(o) ==
  LET table == IF o.workType \in DOMAIN WORK_TYPE_PRICES
               THEN WORK_TYPE_PRICES[o.workType] ELSE 0 IN
    IF table > 0 THEN table
    ELSE IF o.price = NullPrice THEN 0 ELSE o.price

\* C12: createInvoice bills the table price when it is > 0, else the stamped
\* price, and fails without an invoice when neither is positive; on success the
\* invoice is PENDING with that amount and has one debit entry of that amount
\* whose balance is the balance of the client's most recent entry plus the
\* amount (2750 for a PROTESIS order, table price 2750, on an empty ledger).
C12_InvoiceAmountAndDebit ==
  (Done(1, "createInvoice") /\ Billable(1)) =>
    LET o == pre[1].orders[loc[1].orderId]
        price == ContractPrice(o)
        newI == invoices \ pre[1].invoices
        newE == {e \in entries : e.id \notin {x.id : x \in pre[1].entries}}
        prior == {e \in pre[1].entries : e.clientId = o.dentistId} IN
      IF price <= 0
      THEN res[1] = "error" /\ newI = {} /\ newE = {}
      ELSE /\ res[1] = "ok"
           /\ \E i \in newI, e \in newE :
                /\ newI = {i} /\ newE = {e}
                /\ i.amount = price /\ i.status = "PENDING"
                /\ i.clientId = o.dentistId /\ i.workOrderId = loc[1].orderId
                /\ e.invoiceId = i.id /\ e.clientId = i.clientId
                /\ e.debit = price /\ e.credit = 0
                /\ IF prior = {} THEN e.balanceAfter = price
                   ELSE \E f \in Latest(prior) : e.balanceAfter = f.balanceAfter + price
                /\ (o.workType = "PROTESIS" /\ prior = {})
                     => i.amount = 2750 /\ e.debit = 2750 /\ e.balanceAfter = 2750

\* C12 witness: an order with both a table price and a different stamped price
\* was invoiced for a client whose ledger already had an entry.
C12_Witness ==
  /\ Ok(1, "createInvoice")
  /\ Billable(1)
  /\ pre[1].orders[loc[1].orderId].workType # NullType
  /\ pre[1].orders[loc[1].orderId].price > 0
  /\ \E e \in pre[1].entries : e.clientId = loc[1].clientId /\ e.balanceAfter # 0
\* C13: createInvoice ends in an error and writes nothing (no invoice, no price
\* backfill, no ledger entry) when the order does not exist, has no billed-to
\* party, is neither DONE nor DELIVERED, already has an invoice, or has no
\* positive price.
C13_RejectedInvoiceWritesNothing ==
  (Done(1, "createInvoice")
     /\ (~Billable(1) \/ ContractPrice(pre[1].orders[loc[1].orderId]) <= 0))
    => /\ res[1] = "error"
       /\ orders = pre[1].orders
       /\ invoices = pre[1].invoices
       /\ payments = pre[1].payments
       /\ entries = pre[1].entries

\* C13 witness: createInvoice was called for an order that already had an
\* invoice.
C13_Witness ==
  /\ Done(1, "createInvoice")
  /\ \E i \in pre[1].invoices : i.workOrderId = loc[1].orderId
\* positions of a handler after its first store access and before its last
\* write
SequenceLabels ==
  {"ci_insert", "ci_backfill", "ae_latest", "ae_insert", "rp_invoices",
   "rp_payments", "rp_next", "rp_insert", "rp_status", "rp_any", "rp_ledger",
   "rc_load", "rc_update",
   "pa_amount", "pa_find", "pa_fallback", "pa_debit", "pa_payments", "pa_status",
   "di_payments", "di_entries", "di_delete", "dp_find", "dp_entry",
   "dp_delete", "dp_remaining", "dp_status"}
InSequence(p, c) == pc[p] \in SequenceLabels /\ loc[p].clientId = c

\* C14: mutating sequences on one client's ledger exclude each other: no two
\* handlers for the same client are both between their first store access and
\* their last write.
C14_PerClientMutualExclusion ==
  \A c \in Clients : \A p, q \in Procs :
    (InSequence(p, c) /\ InSequence(q, c)) => p = q
C17_EditBelowPaymentsRejected ==
  (Done(1, "editInvoiceAmount")
     /\ loc[1].amount # NaN
     /\ \E i \in pre[1].invoices :
          /\ i.id = loc[1].invoiceId
          /\ loc[1].amount < SumAmount({q \in pre[1].payments : q.invoiceId = i.id}))
    => /\ res[1] = "error"
       /\ invoices = pre[1].invoices
       /\ entries = pre[1].entries
\* C18: once a ledger entry exists, no step changes its clientId, invoiceId,
\* debit, credit or createdAt; its balance is the only field rewritten, and only
\* by recomputeBalances.
C18_EntryFieldsFrozen ==
  [][\A e \in entries : \A f \in entries' :
       e.id = f.id =>
         /\ f.clientId = e.clientId /\ f.invoiceId = e.invoiceId
         /\ f.debit = e.debit /\ f.credit = e.credit /\ f.createdAt = e.createdAt
         /\ f.balanceAfter # e.balanceAfter => \E p \in Procs : pc[p] = "rc_update"]_vars

\* C18, as the handlers have it: clientId, invoiceId, credit and createdAt of an
\* entry never change; its debit is rewritten only by editInvoiceAmount, on the
\* debit entry of the edited invoice and to the new amount; its balance is
\* rewritten only by recomputeBalances.
C18_EntryFrame ==
  [][\A e \in entries : \A f \in entries' :
       e.id = f.id =>
         /\ f.clientId = e.clientId /\ f.invoiceId = e.invoiceId
         /\ f.credit = e.credit /\ f.createdAt = e.createdAt
         /\ f.debit # e.debit =>
              \E p \in Procs :
                /\ pc[p] = "pa_debit" /\ loc[p].op = "editInvoiceAmount"
                /\ e.invoiceId = loc[p].invoiceId /\ e.debit > 0
                /\ f.debit = loc[p].amount
         /\ f.balanceAfter # e.balanceAfter =>
              \E p \in Procs : pc[p] = "rc_update" /\ f.debit = e.debit]_vars

\* C18 witness: an edit has rewritten the debit of an entry and is about to
\* replay the ledger.
C18_Witness ==
  /\ pc[1] = "rc_load"
  /\ loc[1].op = "editInvoiceAmount"
  /\ \E e \in entries : \E f \in pre[1].entries : e.id = f.id /\ e.debit # f.debit

\* C19: an operation during which a store write failed reports an error to
\* its caller, the work-order price backfill of createInvoice and the PENDING
\* to PAID update of recordPayment included
C19_FailedWriteIsReported ==
  (pc[1] = "done" /\ loc[1].failed) => res[1] = "error"

C24_AppendEntry ==
  [][(pc[1] = "ae_insert" /\ pc'[1] # "ae_insert") =>
       LET l == loc[1]
           mine == EntriesOf(l.clientId)
           prior == IF mine = {} THEN {0}
                    ELSE {x.balanceAfter :
                            x \in {y \in mine : \A z \in mine :
                                                  z.createdAt <= y.createdAt}} IN
         \E e \in entries' :
           /\ e \notin entries
           /\ \A x \in entries : x.id # e.id
           /\ entries' = entries \cup {e}
           /\ e.clientId = l.clientId
           /\ e.invoiceId = l.entryInvoice
           /\ e.debit = l.entryDebit
           /\ e.credit = l.entryCredit
           /\ e.createdAt = l.entryAt
           /\ \E b \in prior : e.balanceAfter = b + e.debit - e.credit]_vars

\* a credit row has been appended to a ledger that already held rows
C24_Witness ==
  /\ Ok(1, "recordPayment")
  /\ loc[1].entryId # NoId
  /\ \E e \in entries :
       /\ e.id = loc[1].entryId
       /\ e.credit = 50
       /\ e.balanceAfter = 50
       /\ Cardinality(EntriesOf(e.clientId)) = 2

\* C27: from any ledger of a client (any stored balances, debits and credits,
\* rows sharing a createdAt), one recomputeBalances that runs alone to its end
\* leaves the client's rows satisfying the running-balance chain in
\* (createdAt, id) order, the first row's balance being its debit minus its
\* credit; it changes no other field and no other row.
C27_RecomputeRestoresChain ==
  (Ok(1, "recomputeBalances") /\ nOps = 1) =>
    LET mine == EntriesOf(loc[1].clientId)
        q == OrderByCreatedAtId(mine, uuidOrder) IN
      /\ ChainOK(mine, uuidOrder)
      /\ Len(q) > 0 => q[1].balanceAfter = q[1].debit - q[1].credit
      /\ {[e EXCEPT !.balanceAfter = 0] : e \in entries} =
           {[e EXCEPT !.balanceAfter = 0] : e \in pre[1].entries}

\* two rows with the same createdAt, one of them with both a debit and a
\* credit, whose stored balances did not satisfy the chain
C27_Witness ==
  /\ Ok(1, "recomputeBalances")
  /\ nOps = 1
  /\ ~ChainOK(pre[1].entries, pre[1].uuidOrder)
  /\ \E e, f \in entries :
       /\ e.id # f.id
       /\ e.createdAt = f.createdAt
       /\ e.debit > 0 /\ e.credit > 0
       /\ f.balanceAfter # (CHOOSE g \in pre[1].entries : g.id = f.id).balanceAfter

\* C28: editInvoiceAmount with an amount <= 0 or not a number, editInvoiceAmount
\* or deleteInvoice on an invoice id that does not exist, and deletePayment on
\* a payment id that does not exist end in an error and have written nothing.
C28_RejectedEditOrDeleteWritesNothing ==
  LET l == loc[1]
      noInvoice == \A i \in pre[1].invoices : i.id # l.invoiceId
      noPayment == \A q \in pre[1].payments : q.id # l.paymentId
      rejected ==
        \/ Done(1, "editInvoiceAmount") /\ (l.amount = NaN \/ l.amount <= 0 \/ noInvoice)
        \/ Done(1, "deleteInvoice") /\ noInvoice
        \/ Done(1, "deletePayment") /\ noPayment IN
    rejected => res[1] = "error" /\ Snapshot = pre[1]

\* a negative amount has been refused on an invoice that exists
C28_Witness ==
  /\ Done(1, "editInvoiceAmount")
  /\ loc[1].amount < 0
  /\ loc[1].amount # NaN
  /\ \E i \in invoices : i.id = loc[1].invoiceId
  /\ res[1] = "error"

\* C30: every stored ledger entry has debit >= 0 and credit >= 0 with exactly
\* one of the two > 0, so the statement classifies no row as MOVIMIENTO.
C30_EntryIsDebitOrCredit ==
  \A e \in entries :
    /\ e.debit >= 0
    /\ e.credit >= 0
    /\ (e.debit > 0) # (e.credit > 0)
    /\ tipo(toNumber(e.debit), toNumber(e.credit)) # "MOVIMIENTO"

\* an amount edit has rewritten a debit on a ledger that also holds a credit
C30_Witness ==
  /\ Ok(1, "editInvoiceAmount")
  /\ \E e \in entries : \E f \in pre[1].entries :
       e.id = f.id /\ e.debit # f.debit
  /\ \E e \in entries : e.credit > 0

\* the ledger rows a statement is asked for: the client's, in the date range
Requested(p) ==
  {e \in pre[p].entries : /\ e.clientId = loc[p].clientId
                          /\ InRange(e.createdAt, loc[p].from, loc[p].to)}

\* C21 as stated: getStatement for an existing client fails only when the
\* ledger read itself fails.
C21_FailsOnlyOnLedgerRead ==
  (Done(1, "getStatement") /\ loc[1].clientId \in Clients /\ res[1] = "error") =>
    loc[1].failedAt = "gs_entries"

\* C21: getStatement for an existing client returns a statement, with one row
\* per requested ledger row, in every state of the ledger, invoices and
\* payments, whatever the number of candidate payments of a credit row and
\* whether or not the work order of an invoice is there; it fails exactly when
\* the read of the client, of the ledger, of the invoices or of the work
\* orders fails.
C21_FailsOnlyOnReadFailure ==
  (Done(1, "getStatement") /\ loc[1].clientId \in Clients) =>
    /\ res[1] = "error" <=>
         loc[1].failedAt \in {"gs_client", "gs_entries", "gs_invoices", "gs_orders"}
    /\ res[1] = "ok" =>
         /\ Len(loc[1].rows) = Cardinality(Requested(1))
         /\ \A e \in Requested(1) : \E k \in 1..Len(loc[1].rows) :
              loc[1].ledger[k] = e

\* a statement has been returned for a credit row with two candidate payments
\* whose invoice has lost its work order, and a row that is neither debit
\* nor credit
C21_Witness ==
  /\ Ok(1, "getStatement")
  /\ ~loc[1].failed
  /\ \E i \in invoices : i.id = 1 /\ i.workOrderId = NullOrder
  /\ \E e \in Requested(1) :
       /\ e.credit > 0
       /\ Cardinality({q \in payments : /\ q.invoiceId = e.invoiceId
                                        /\ q.amount = e.credit
                                        /\ Abs(q.createdAt - e.createdAt) < Window}) = 2
  /\ \E e \in Requested(1) : e.credit = 0 /\ e.debit = 0

\* C22: every row of a statement is FACTURA when its debit > 0, else PAGO when
\* its credit > 0, else MOVIMIENTO; the rows are the requested ledger rows in
\* ascending createdAt order; the totals are the sum of the rows' debits, the
\* sum of their credits, and the first minus the second.
C22_StatementRowsAndTotals ==
  Ok(1, "getStatement") =>
    LET rows == loc[1].rows
        totals == loc[1].totals
        wanted == Requested(1) IN
      /\ Len(rows) = Cardinality(wanted)
      /\ \A e \in wanted : \E k \in 1..Len(rows) :
           /\ rows[k].fecha = e.createdAt
           /\ rows[k].facturas = e.debit
           /\ rows[k].entregas = e.credit
           /\ rows[k].saldoAcumulado = e.balanceAfter
      /\ \A k \in 1..Len(rows) :
           rows[k].tipo = IF rows[k].facturas > 0 THEN "FACTURA"
                          ELSE IF rows[k].entregas > 0 THEN "PAGO"
                          ELSE "MOVIMIENTO"
      /\ \A k \in 1..(Len(rows) - 1) : rows[k].fecha <= rows[k + 1].fecha
      /\ totals.facturas = SumField(rows, "facturas")
      /\ totals.entregas = SumField(rows, "entregas")
      /\ totals.saldo = totals.facturas - totals.entregas

\* a statement over a date range that leaves a ledger row out, with a debit
\* row and a credit row in it
C22_Witness ==
  /\ Ok(1, "getStatement")
  /\ loc[1].to # NoDate
  /\ Len(loc[1].rows) = 2
  /\ Cardinality(EntriesOf(loc[1].clientId)) = 2
  /\ loc[1].rows[1].tipo # loc[1].rows[2].tipo
  /\ loc[1].totals.saldo = 50

\* the payments that qualify for a credit row: on an invoice the statement's
\* rows name, the row's credit as amount, created less than the window away
Candidates(p, entry) ==
  {q \in pre[p].payments :
     /\ \E e \in Requested(p) : e.invoiceId = q.invoiceId
     /\ q.amount = entry.credit
     /\ Abs(q.createdAt - entry.createdAt) < Window}

\* C29: on every PAGO row the statement reports a qualifying payment, the one
\* with the earliest createdAt when several qualify; when none qualifies the
\* payment id is null and the row has the generic label.
C29_EarliestCandidateWins ==
  (Ok(1, "getStatement") /\ ~loc[1].failed) =>
    \A k \in 1..Len(loc[1].rows) :
      LET row == loc[1].rows[k]
          cands == Candidates(1, loc[1].ledger[k]) IN
        row.tipo = "PAGO" =>
          IF cands = {}
          THEN row.paymentId = NoId /\ row.detalle = "Pago registrado"
          ELSE \E q \in cands : /\ q.id = row.paymentId
                                /\ \A r \in cands : q.createdAt <= r.createdAt

\* process p has completed a createInvoice or a recordPayment that appended a
\* ledger row for client c
Appended(p, c) ==
  /\ pc[p] = "done"
  /\ res[p] = "ok"
  /\ loc[p].op \in {"createInvoice", "recordPayment"}
  /\ loc[p].clientId = c
  /\ loc[p].entryId # NoId
\* p's read of the latest balance came before q's row was inserted
ReadBefore(p, q) == loc[p].readAt < loc[q].entryId

\* C25: when two ledger appends for the same client interleave so that each
\* reads the most recent row before the other inserts, both read the same row,
\* both new rows are computed from that row's balance, and the ledger left
\* after both have completed violates the running-balance chain.
C25_ConcurrentAppendsBreakChain ==
  \A c \in Clients :
    (Appended(1, c) /\ Appended(2, c) /\ ReadBefore(1, 2) /\ ReadBefore(2, 1)) =>
      /\ loc[1].prevId = loc[2].prevId
      /\ loc[1].prev = loc[2].prev
      /\ \A p \in Procs : \E e \in entries :
           /\ e.id = loc[p].entryId
           /\ e.balanceAfter = loc[p].prev + e.debit - e.credit
      /\ ~ChainOK(EntriesOf(c), uuidOrder)

\* two recordPayment calls for c1 have both completed, each having read the
\* latest balance before the other inserted its row
C25_Witness ==
  /\ Appended(1, "c1") /\ Appended(2, "c1")
  /\ ReadBefore(1, 2) /\ ReadBefore(2, 1)
  /\ loc[1].op = "recordPayment" /\ loc[2].op = "recordPayment"
  /\ ~ChainOK(EntriesOf("c1"), uuidOrder)

\* process p has completed an amount edit, an invoice delete or a payment
\* delete of client c, with its recomputeBalances
Recomputed(p, c) ==
  /\ pc[p] = "done"
  /\ res[p] = "ok"
  /\ loc[p].op \in {"editInvoiceAmount", "deleteInvoice", "deletePayment"}
  /\ loc[p].clientId = c
\* the row q appended is still there and was not in the snapshot p replayed
Missed(p, q) ==
  /\ \E e \in entries : e.id = loc[q].entryId
  /\ \A k \in 1..Len(loc[p].snap) : loc[p].snap[k].id # loc[q].entryId
\* the balance q read is no longer what the row before q's row holds
Stale(q, c) ==
  LET rows == OrderByCreatedAtId(EntriesOf(c), uuidOrder)
      k == CHOOSE j \in 1..Len(rows) : rows[j].id = loc[q].entryId IN
    loc[q].prev # (IF k = 1 THEN 0 ELSE rows[k - 1].balanceAfter)

\* the sum the replay of a snapshot reaches at its k-th row
RECURSIVE Replayed(_, _)
Replayed(snap, k) ==
  IF k = 0 THEN 0 ELSE Replayed(snap, k - 1) + snap[k].debit - snap[k].credit

\* C26: when an append for a client interleaves with a recomputeBalances for
\* the same client (inside an amount edit, an invoice delete or a payment
\* delete) so that the appended row is not in the snapshot the recompute
\* replays and the balance the append read is not the one its preceding row
\* ends with, then after both have completed the rows of the snapshot hold the
\* replayed sums, the appended row still holds the balance computed from what
\* was read, and the client's ledger violates the running-balance chain.
C26_AppendRacingRecomputeBreaksChain ==
  \A c \in Clients :
    (Recomputed(1, c) /\ Appended(2, c) /\ Missed(1, 2) /\ Stale(2, c)) =>
      /\ \A k \in 1..Len(loc[1].snap) : \A e \in entries :
           e.id = loc[1].snap[k].id => e.balanceAfter = Replayed(loc[1].snap, k)
      /\ \E e \in entries :
           /\ e.id = loc[2].entryId
           /\ e.balanceAfter = loc[2].prev + e.debit - e.credit
      /\ ~ChainOK(EntriesOf(c), uuidOrder)

\* an amount edit of invoice 1 and a createInvoice for another order of c1
\* have both completed: the append read the balance 100 of the debit row, the
\* recompute then rewrote that row, and the new row was not in its snapshot
C26_Witness ==
  /\ Recomputed(1, "c1") /\ Appended(2, "c1")
  /\ Missed(1, 2) /\ Stale(2, "c1")
  /\ loc[1].op = "editInvoiceAmount"
  /\ loc[2].op = "createInvoice"
  /\ loc[2].prevId = 1
  /\ loc[2].prev = 100
  /\ \E e \in entries : e.id = 1 /\ e.balanceAfter = 50
  /\ ~ChainOK(EntriesOf("c1"), uuidOrder)

\* the invoices, payments and ledger entries of client c in a store
RowsOf(c, I, P, E) ==
  <<{i \in I : i.clientId = c},
    {q \in P : \E i \in I : i.id = q.invoiceId /\ i.clientId = c},
    {e \in E : e.clientId = c}>>

\* every row process p holds in its locals belongs to the client it works for
OwnRows(p) ==
  LET l == loc[p]
      A == l.clientId
      known == entries \cup pre[p].entries IN
    (pc[p] \notin {"idle"} /\ A \in Clients) =>
      /\ \A k \in 1..Len(l.list) : l.list[k].clientId = A
      /\ \A k \in 1..Len(l.snap) : \A e \in known :
           e.id = l.snap[k].id => e.clientId = A
      /\ \A e \in known : e.id = l.prevId => e.clientId = A
      /\ l.op \in {"editInvoiceAmount", "deleteInvoice", "deletePayment"} =>
           l.invoice.clientId = A
      /\ l.op = "deletePayment" =>
           \E i \in pre[p].invoices : i.id = l.payment.invoiceId /\ i.clientId = A

\* a step of a handler changes no row of a client other than the one the
\* handler works for
FrameStep ==
  \A p \in Procs :
    (pc'[p] # pc[p] \/ loc'[p] # loc[p]) =>
      \A B \in Clients \ {loc'[p].clientId} :
        RowsOf(B, invoices', payments', entries') = RowsOf(B, invoices, payments, entries)

\* the two handlers have completed, for different clients
BothDoneApart ==
  /\ \A p \in Procs : pc[p] = "done" /\ res[p] = "ok"
  /\ loc[1].clientId # loc[2].clientId

\* C23: a handler invoked for client A changes no invoice, payment or ledger
\* entry of another client and holds no row of another client in what it has
\* read; two handlers for different clients, interleaved in any way, leave each
\* client's ledger satisfying the running-balance chain, as they do when run
\* one after the other.
C23_ClientsAreIndependent ==
  /\ [](\A p \in Procs : OwnRows(p))
  /\ [](BothDoneApart => \A c \in Clients : ChainOK(EntriesOf(c), uuidOrder))
  /\ [][FrameStep]_vars

\* an amount edit for c1 and a recordPayment for c2 are both under way: the
\* edit is between its write of the invoice and its write of the debit row,
\* the payment call has inserted its payment row and not yet its ledger row
C23_Witness ==
  /\ loc[1].op = "editInvoiceAmount"
  /\ pc[1] \in {"pa_find", "pa_debit"}
  /\ \E i \in invoices : i.id = 1 /\ i.amount = 50
  /\ loc[2].op = "recordPayment"
  /\ loc[2].clientId = "c2"
  /\ pc[2] = "ae_latest"
  /\ \E q \in payments : q.invoiceId = 2 /\ q.amount = 50

(* ----------------- C31: what recordPayment pays against ---------------- *)
\* C31: every payment row a recordPayment call inserts is against an invoice
\* of the client it was called for, one that its select returned as PENDING
\* and that is not PAID or CANCELLED in the table when the row goes in; and
\* no step of the call changes the amount of an invoice.
C31_PaysOnlyPendingInvoicesOfClient ==
  [][loc[1].op = "recordPayment" =>
       /\ \A q \in payments' \ payments :
            \E i \in invoices :
              /\ i.id = q.invoiceId
              /\ i.clientId = loc[1].clientId
              /\ i.status = "PENDING"
              /\ \E k \in 1..Len(loc[1].list) :
                   loc[1].list[k].id = i.id /\ loc[1].list[k].status = "PENDING"
       /\ {<<i.id, i.amount>> : i \in invoices'} =
            {<<i.id, i.amount>> : i \in invoices}]_vars

\* a payment of 120 for a client whose only PENDING invoice is for 50, while
\* another client has a PENDING invoice with nothing paid on it: the call
\* returned one row, on the client's invoice, which is now PAID and receives
\* nothing more; the surplus of 70 went to no invoice
C31_Witness ==
  /\ pc[1] = "done" /\ res[1] = "ok" /\ loc[1].op = "recordPayment"
  /\ loc[1].amount = 120
  /\ Len(loc[1].created) = 1
  /\ \E i \in pre[1].invoices :
       /\ i.id = loc[1].created[1].invoiceId
       /\ i.clientId = loc[1].clientId /\ i.status = "PENDING" /\ i.amount = 50
  /\ \E i \in invoices :
       i.id = loc[1].created[1].invoiceId /\ i.status = "PAID"
  /\ \E i \in invoices :
       /\ i.clientId # loc[1].clientId /\ i.status = "PENDING"
       /\ PaymentsOf(i.id) = {}

(* ------------------ C32: what recomputeBalances changes ----------------- *)
\* C32: a step of recomputeBalances(clientId), its select or one of its
\* updates, changes nothing but balanceAfter on rows of that client: the set
\* of ledger rows with balanceAfter left out is the same before and after,
\* the rows of other clients are the same rows, and the work orders, the
\* invoices, the payments and the id counters are unchanged.
C32_RecomputeFrame ==
  [][(pc[1] \in {"rc_load", "rc_update"} /\ clock' = clock) =>
       /\ {[e EXCEPT !.balanceAfter = 0] : e \in entries'} =
            {[e EXCEPT !.balanceAfter = 0] : e \in entries}
       /\ Cardinality(entries') = Cardinality(entries)
       /\ \A e \in entries : e.clientId # loc[1].clientId => e \in entries'
       /\ UNCHANGED <<orders, invoices, payments, counters>>]_vars

\* an edit has run recomputeBalances to its end: the replay rewrote a balance
\* of the client, and another client has a ledger row too
C32_Witness ==
  /\ Ok(1, "editInvoiceAmount")
  /\ loc[1].idx > Len(loc[1].snap) /\ Len(loc[1].snap) > 0
  /\ \E e \in entries, f \in pre[1].entries :
       /\ e.id = f.id /\ e.clientId = loc[1].clientId
       /\ e.balanceAfter # f.balanceAfter
  /\ \E e \in entries : e.clientId # loc[1].clientId

(* ------------- C33: the ledger against invoices and payments ----------- *)
\* what the invoices and payment rows say a client owes
Owed(c) ==
  LET mine == {i \in invoices : i.clientId = c} IN
    SumAmount(mine) - SumAmount({q \in payments : \E i \in mine : q.invoiceId = i.id})

\* the balance on the last row of a client's ledger: 0 without rows; when
\* several rows share the greatest createdAt, the balance of any of them
LastBalances(c) == LatestBalances(EntriesOf(c))

\* C33: whenever no handler is running, for every client the balance on the
\* last row of the client's ledger (0 without rows) equals the sum of the
\* amounts of the client's invoices minus the sum of their payment rows.
C33_BalanceMatchesInvoicesAndPayments ==
  Quiet => \A c \in Clients : Owed(c) \in LastBalances(c)

(* ------------- C34: retrying after a failed ledger append -------------- *)
\* the ledger insert of a createInvoice for order o has failed: the call
\* ended in an error and the order's invoice is there without its debit row
AppendFailed(o) ==
  /\ pc[1] = "done" /\ res[1] = "error" /\ loc[1].failed
  /\ loc[1].orderId = o
  /\ Orphaned(o)

\* C34: once the ledger insert inside createInvoice has failed with the
\* invoice row already inserted, calling createInvoice or markOrderAsDelivered
\* again for the same order until a call returns leads to a state where the
\* order's invoice has its debit row.
C34_RetryAppendsDebit ==
  \A o \in RetryOrders : AppendFailed(o) ~> ~Orphaned(o)

(* --------------- C35: two recordPayment calls at once ------------------ *)
\* C35: while the only handlers that have run are two recordPayment calls for
\* the same client, interleaved in any way, the payment rows of every invoice
\* sum to no more than the invoice's amount.
C35_ConcurrentPaymentsNeverOverpay ==
  (/\ \A p \in Procs : loc[p].op \in {"none", "recordPayment"}
   /\ \A p, q \in Procs :
        (loc[p].op = "recordPayment" /\ loc[q].op = "recordPayment")
          => loc[p].clientId = loc[q].clientId)
    => \A i \in invoices : SumAmount(PaymentsOf(i.id)) <= i.amount

(* ------------- C36: one payment, at most one statement row ------------- *)
\* C36: in a statement that was returned, no two PAGO rows carry the same
\* payment id.
C36_PaymentOnOneRow ==
  Ok(1, "getStatement") =>
    \A j, k \in 1..Len(loc[1].rows) :
      (/\ j < k
       /\ loc[1].rows[j].tipo = "PAGO" /\ loc[1].rows[k].tipo = "PAGO"
       /\ loc[1].rows[j].paymentId # NoId)
        => loc[1].rows[j].paymentId # loc[1].rows[k].paymentId

(* ---------- C37: the statement's saldo against its last row ------------ *)
\* C37: a statement without a date range, over a ledger that handlers running
\* one at a time have written, has totals.saldo equal to the saldoAcumulado of
\* its last row. Stated for ledgers whose rows have distinct createdAt, where
\* the order of the rows, and so the last row, is determined.
C37_SaldoIsLastRowBalance ==
  (/\ Ok(1, "getStatement")
   /\ Len(loc[1].rows) > 0
   /\ \A j, k \in 1..Len(loc[1].rows) :
        j # k => loc[1].rows[j].fecha # loc[1].rows[k].fecha) =>
    loc[1].totals.saldo = loc[1].rows[Len(loc[1].rows)].saldoAcumulado

(* ------------ C38: the export's amount against the invoice's ----------- *)
\* Number(text) of an amount written with two decimals that are zero
RECURSIVE DecimalValue(_)
DecimalValue(q) ==
  IF Len(q) = 0 THEN 0
  ELSE 10 * DecimalValue(SubSeq(q, 1, Len(q) - 1))
       + (CHOOSE d \in 0..9 : DigitChars[d + 1] = q[Len(q)])

AmountValue(text) == DecimalValue(SubSeq(text, 1, Len(text) - 3))

\* C38: when the export has listed an order and createInvoice then invoices
\* that order, the amount on the export's row is the amount of the invoice,
\* written with two decimals, whatever the order's work type and stamped price.
C38_ExportAmountIsInvoiceAmount ==
  (/\ Ok(1, "export")
   /\ Ok(2, "createInvoice")) =>
    \A k \in 1..Len(loc[1].rows) :
      loc[1].rows[k].id = loc[2].orderId =>
        /\ loc[1].rows[k].amount = toFixed2(loc[2].invoice.amount)
        /\ AmountValue(loc[1].rows[k].amount) = loc[2].invoice.amount
====
